---- MODULE Spec2Model ----
(***************************************************************************)
(* pygrowthstandards: the query resolver (src/functional/data.py), the     *)
(* functional z-score API (src/functional/calculator.py), the LMS kernel   *)
(* (src/utils/stats.py) and the table-backed calculators                   *)
(* (src/calculator/table_data.py, src/calculator/computer.py).             *)
(*                                                                         *)
(* Units.  Ages are kept in hundredths of a day, so that YEAR = 365.25 and *)
(* MONTH = 30.44 are integers and a float age such as 5 * YEAR = 1826.25   *)
(* is represented exactly.  Gestational ages are whole days, as the        *)
(* callers pass them.  Real numbers of the kernel are exact rationals      *)
(* <<numerator, denominator>> in lowest terms with a positive denominator. *)
(***************************************************************************)
EXTENDS Integers, Sequences, FiniteSets, TLC

VARIABLES
  call,          \* the call in progress: its name and its arguments
  ret,           \* what the call returned or raised
  catalog,       \* the reference DataFrame load_reference returned
  views,         \* the GrowthTable objects handed out, by object
  loaded,        \* the DataFrame as load_reference returned it
  threads,       \* the zscore / percentile calls running in threads
  measurements,  \* _measurements of the Handler and of the AdderMixin object
  added,         \* per object, the measurements added so far
  child,         \* the Child object: its attributes
  patient        \* the Patient object: its attributes

vars == <<call, ret, catalog, views, loaded, threads, measurements, added,
          child, patient>>

\* the state of the objects, which the calls on plain values leave alone
objects == <<catalog, views, loaded, threads, measurements, added, child, patient>>

(***************************************************************************)
(* Program constants                                                       *)
(***************************************************************************)
\* Python's None for an optional integer argument (every real value is >= 0)
NONE == -1
\* src/utils/constants.py
WEEK == 7
MONTH == 3044
YEAR == 36525

\* d whole days in hundredths of a day
Days(d) == 100 * d

(***************************************************************************)
(* Bounds of the model                                                     *)
(***************************************************************************)
\* ages are explored up to AgeSlack whole days around each threshold
AgeSlack == 1
\* gestational ages are explored up to GaSlack days around each threshold
GaSlack == 1

(***************************************************************************)
(* Exact rational arithmetic (the kernel's float arithmetic)               *)
(***************************************************************************)
Abs(n) == IF n < 0 THEN -n ELSE n

RECURSIVE Gcd(_, _)
Gcd(a, b) == IF b = 0 THEN a ELSE Gcd(b, a % b)

Rat(n, d) ==
  LET g == Gcd(Abs(n), Abs(d))
      s == IF d < 0 THEN -1 ELSE 1
  IN  <<(s * n) \div g, (s * d) \div g>>

RInt(n) == <<n, 1>>
RAdd(a, b) == Rat(a[1] * b[2] + b[1] * a[2], a[2] * b[2])
RSub(a, b) == Rat(a[1] * b[2] - b[1] * a[2], a[2] * b[2])
RMul(a, b) == Rat(a[1] * b[1], a[2] * b[2])
RDiv(a, b) == Rat(a[1] * b[2], a[2] * b[1])
RLt(a, b) == a[1] * b[2] < b[1] * a[2]
RLe(a, b) == a[1] * b[2] <= b[1] * a[2]

\* a ** n for an integer n (a # 0 when n < 0)
RECURSIVE RPow(_, _)
RPow(a, n) ==
  IF n = 0 THEN RInt(1)
  ELSE IF n < 0 THEN RDiv(RInt(1), RPow(a, -n))
  ELSE RMul(a, RPow(a, n - 1))

(***************************************************************************)
(* Results of a call: a value, a raised exception, or Python's None        *)
(***************************************************************************)
\* v is always a record, so that results of different calls stay comparable
Ok(v) == [status |-> "ok", val |-> v]
Err(kind) == [status |-> "error", kind |-> kind]
RetNone == [status |-> "none"]

(***************************************************************************)
(* Query resolver: src/functional/data.py                                  *)
(***************************************************************************)
\* str.lower().replace("-", "_") on the measurement strings of the model
Normalize(s) ==
  CASE s = "Height" -> "height"
    [] s = "WFH" -> "wfh"
    [] s = "weight-for-length" -> "weight_for_length"
    [] s = "Weight-Stature" -> "weight_stature"
    [] OTHER -> s

\* str.Upper() on the sex strings of the model
Upper(s) ==
  CASE s = "m" -> "M"
    [] s = "f" -> "F"
    [] s = "u" -> "U"
    [] s = "x" -> "X"
    [] s = "lms" -> "LMS"
    [] s = "1mon" -> "1MON"
    [] OTHER -> s

\* str.lower() on the sex strings of the model
Lower(s) ==
  CASE s = "M" -> "m"
    [] s = "F" -> "f"
    [] s = "U" -> "u"
    [] s = "X" -> "x"
    [] OTHER -> s

\* the keys of MEASUREMENT_ALIASES
MeasurementKeys ==
  {"stature", "weight", "head_circumference", "body_mass_index",
   "weight_stature_ratio", "weight_velocity", "length_velocity",
   "head_circumference_velocity"}

\* MEASUREMENT_ALIASES[key]
MEASUREMENT_ALIASES(key) ==
  CASE key = "stature" ->
         {"lfa", "hfa", "lhfa", "sfa", "length", "height", "length_height",
          "l", "h", "s", "stature"}
    [] key = "weight" -> {"wfa", "w", "weight"}
    [] key = "head_circumference" -> {"hcfa", "hc", "head_circumference"}
    [] key = "body_mass_index" -> {"bmi", "bfa", "body_mass_index"}
    [] key = "weight_stature_ratio" ->
         {"wfs", "wfl", "wfh", "weight_length", "weight_height",
          "weight_stature", "weight_for_stature", "weight_for_length",
          "weight_for_height"}
    [] OTHER -> {key}

\* get_keys.normalized_measurement: the key whose aliases hold the
\* normalized string, "" standing for the ValueError of an unknown one
normalized_measurement(measurement) ==
  LET hits == {key \in MeasurementKeys :
                 Normalize(measurement) \in MEASUREMENT_ALIASES(key) \cup {key}}
  IN  IF hits = {} THEN "" ELSE CHOOSE key \in hits : TRUE

keys_handle_age_days_off_by_one(age_days, measurement_type) ==
  IF measurement_type \in {"head_circumference", "weight_stature"}
       /\ age_days >= 5 * YEAR
    THEN Err("NoReferenceForRange")
  ELSE IF measurement_type \in {"weight"} /\ age_days > 10 * YEAR
    THEN Err("NoReferenceForRange")
  ELSE Ok([name |-> IF age_days > 5 * YEAR THEN "growth" ELSE "child_growth"])

keys_handle_age_days(age_days, measurement_type) ==
  IF measurement_type \in {"head_circumference", "weight_stature"}
       /\ age_days > 5 * YEAR
    THEN Err("NoReferenceForRange")
  ELSE IF measurement_type \in {"weight"} /\ age_days > 10 * YEAR
    THEN Err("NoReferenceForRange")
  ELSE Ok([name |-> IF age_days > 5 * YEAR THEN "growth" ELSE "child_growth"])

\* gestational_age is compared with the bare number 28
keys_handle_gestational_age(gestational_age, measurement_type) ==
  IF measurement_type \in {"weight_stature"} /\ gestational_age > 28
    THEN Err("NoReferenceForRange")
  ELSE IF measurement_type \in {"body_mass_index"} /\ gestational_age < 28
    THEN Err("NoReferenceForAge")
  ELSE Ok([name |-> IF gestational_age > 28 THEN "newborn"
                     ELSE "very_preterm_newborn"])

Keys(name, measurement_type, sex, x_var_type) ==
  [name |-> name, measurement_type |-> measurement_type, sex |-> sex,
   x_var_type |-> x_var_type]

get_keys(measurement, sex, age_days, gestational_age) ==
  IF age_days = NONE /\ gestational_age = NONE THEN Err("MissingAge")
  ELSE
    LET measurement_type == normalized_measurement(measurement)
        sx == IF Upper(sex) \in {"M", "F"} THEN Upper(sex) ELSE "F"
    IN
      IF measurement_type = "" THEN Err("UnknownMeasurement")
      ELSE IF age_days # NONE THEN
        LET name == keys_handle_age_days(age_days, measurement_type)
        IN  IF name.status = "error" THEN name
            ELSE IF gestational_age # NONE /\ gestational_age < 28
                      /\ age_days < Days(64 * WEEK)
              THEN Ok(Keys("very_preterm_growth", measurement_type, sx, "age"))
            ELSE Ok(Keys(name.val.name, measurement_type, sx, "age"))
      ELSE
        LET name == keys_handle_gestational_age(gestational_age, measurement_type)
        IN  IF name.status = "error" THEN name
            ELSE Ok(Keys(name.val.name, measurement_type, sx, "gestational_age"))

(***************************************************************************)
(* Table selection of the OOP calculator: src/calculator/computer.py       *)
(***************************************************************************)
\* PlotAgeValues.VERY_PRETERM.value[1], PlotAgeValues.TWO_FIVE_YEARS.value[1]
VERY_PRETERM_HI == 448
TWO_FIVE_YEARS_HI == 5

\* value[1] of the other members of PlotAgeValues
ZERO_ONE_YEARS_HI == 1
ZERO_TWO_YEARS_HI == 2
FIVE_TEN_YEARS_HI == 10
TEN_NINETEEN_YEARS_HI == 19

\* Computer._get_table_name; measurement_age_days is timedelta.days, and
\* is_very_preterm is the child's flag ("True", "False" or "None")
Computer_get_table_name(measurement_age_days, is_very_preterm) ==
  IF measurement_age_days = 0 THEN "newborn"
  ELSE IF is_very_preterm = "True" /\ measurement_age_days <= Days(VERY_PRETERM_HI)
    THEN "very_preterm_growth"
  ELSE IF measurement_age_days <= Days(TWO_FIVE_YEARS_HI) THEN "growth"
  ELSE "child_growth"

\* Computer._get_age_group(measurement_age_days, measurement_type): the age
\* in days is compared with value[1] of PlotAgeValues; ValueError past the last
Computer_get_age_group(measurement_age_days, measurement_type, is_very_preterm) ==
  LET newborn == measurement_age_days = 0
      very_preterm == is_very_preterm = "True"
  IN  IF newborn /\ very_preterm THEN Ok([age_group |-> "very_preterm_newborn"])
      ELSE IF newborn THEN Ok([age_group |-> "newborn"])
      ELSE IF very_preterm /\ measurement_age_days <= Days(VERY_PRETERM_HI)
        THEN Ok([age_group |-> "very_preterm_growth"])
      ELSE IF /\ measurement_type \in {"head_circumference_velocity",
                                       "length_velocity", "weight_velocity"}
              /\ measurement_age_days <= Days(ZERO_ONE_YEARS_HI)
        THEN Ok([age_group |-> "0-1"])
      ELSE IF measurement_age_days <= Days(ZERO_TWO_YEARS_HI)
        THEN Ok([age_group |-> "0-2"])
      ELSE IF measurement_age_days <= Days(TWO_FIVE_YEARS_HI)
        THEN Ok([age_group |-> "2-5"])
      ELSE IF measurement_age_days <= Days(FIVE_TEN_YEARS_HI)
        THEN Ok([age_group |-> "5-10"])
      ELSE IF measurement_age_days <= Days(TEN_NINETEEN_YEARS_HI)
        THEN Ok([age_group |-> "10-19"])
      ELSE Err("ValueError")

\* TableData.get_age_group(age_days, newborn, very_preterm)
TableData_get_age_group(age_days, newborn, very_preterm) ==
  IF newborn THEN Ok([age_group |-> "newborn"])
  ELSE IF very_preterm /\ age_days < 64 * Days(WEEK)
    THEN Ok([age_group |-> "very_preterm"])
  ELSE IF age_days < 2 * YEAR THEN Ok([age_group |-> "0-2"])
  ELSE IF age_days < 5 * YEAR THEN Ok([age_group |-> "2-5"])
  ELSE IF age_days < 10 * YEAR THEN Ok([age_group |-> "5-10"])
  ELSE Ok([age_group |-> "10-19"])

(***************************************************************************)
(* LMS kernel: src/utils/stats.py.  value, m and s are rationals, l is an  *)
(* integer power.                                                          *)
(***************************************************************************)
LMS(l, m, s) == [l |-> l, m |-> m, s |-> s]

\* calculate_z_score: the l = 0 branch is (value / m - 1) / s
calculate_z_score(value, l, m, s) ==
  IF l = 0 THEN RDiv(RSub(RDiv(value, m), RInt(1)), s)
  ELSE RDiv(RSub(RPow(RDiv(value, m), l), RInt(1)), RMul(RInt(l), s))

\* calculate_value_for_z_score, as tests/test_stats.py pins it down:
\* mu * (1 + sigma * z) for lambda = 0 and mu * (1 + lambda * sigma * z) **
\* (1 / lambda) otherwise; 1 / lambda is an integer for the powers -1 and 1
\* of the model
calculate_value_for_z_score(z, l, m, s) ==
  IF l = 0 THEN RMul(m, RAdd(RInt(1), RMul(s, z)))
  ELSE RMul(m, RPow(RAdd(RInt(1), RMul(RMul(RInt(l), s), z)), 1 \div l))

\* normal_cdf is kept symbolic: the standard normal CDF applied to z
normal_cdf(z) == [Phi |-> z]

(***************************************************************************)
(* Table-backed calculator: src/calculator/table_data.py                   *)
(***************************************************************************)
\* the sexes create_data.py writes "-<sex>-lms.csv" files for
SEXES == {"m", "f"}

\* TableData.__init__ and _setup: every table is read from the file named
\* after the lower-cased sex; open() raises for a file that is not there
TableData_init(sex) ==
  IF Lower(sex) \in SEXES THEN Ok([sex |-> sex, files |-> Lower(sex)])
  ELSE Err("FileNotFoundError")

\* TableData._calculate_value_for_z_score for -3 <= z <= 3
TableData_calculate_value_for_z_score(z, lamb, mu, sigm) ==
  calculate_value_for_z_score(RInt(z), lamb, mu, sigm)

\* TableData._calculate_z_score with its fix_extremes
TableData_calculate_z_score(y, lamb, mu, sigm) ==
  LET z == calculate_z_score(y, lamb, mu, sigm)
      sd3 == TableData_calculate_value_for_z_score(3, lamb, mu, sigm)
      sd2 == TableData_calculate_value_for_z_score(2, lamb, mu, sigm)
      sd3neg == TableData_calculate_value_for_z_score(-3, lamb, mu, sigm)
      sd2neg == TableData_calculate_value_for_z_score(-2, lamb, mu, sigm)
  IN  IF RLe(RInt(-3), z) /\ RLe(z, RInt(3)) THEN z
      ELSE IF lamb = 1 THEN z
      ELSE IF RLt(RInt(3), z)
        THEN RAdd(RInt(3), RDiv(RSub(y, sd3), RSub(sd3, sd2)))
      ELSE IF RLt(z, RInt(-3))
        THEN RAdd(RInt(-3), RDiv(RSub(y, sd3neg), RSub(sd2neg, sd3neg)))
      ELSE z

\* TableData.get_lms(name, x) on the table get_table(name) returned: the row
\* at x, or interpolate_lms called with keywords it does not have
TableData_get_lms(data, x) ==
  IF \E i \in DOMAIN data.x : data.x[i] = x
    THEN LET idx == CHOOSE i \in DOMAIN data.x :
                      data.x[i] = x /\ \A j \in DOMAIN data.x :
                                          data.x[j] = x => i <= j
         IN  Ok(LMS(data.l[idx], data.m[idx], data.s[idx]))
  ELSE Err("TypeError")

(***************************************************************************)
(* Functional z-score API: src/functional/calculator.py                    *)
(***************************************************************************)
\* _choose_table.measurement_aliases
measurement_aliases(key) ==
  CASE key = "length" -> {"height", "length", "height_length"}
    [] key = "weight" -> {"weight"}
    [] key = "head_circumference" -> {"head_circumference"}
    [] key = "body_mass_index" -> {"bmi", "body_mass_index"}

\* _choose_table.canonical_measurement, "" standing for its ValueError
canonical_measurement(measurement) ==
  LET hits == {key \in {"length", "weight", "head_circumference",
                        "body_mass_index"} :
                 measurement \in measurement_aliases(key)}
  IN  IF hits = {} THEN "" ELSE CHOOSE key \in hits : TRUE

\* the file name f"{source}_{key}_for_{age_key}_{sex}.json", by its parts
TableFile(source, key, sex) == [source |-> source, key |-> key, sex |-> sex]

\* _choose_table; age_days is in whole days
choose_table(measurement, age_days, sex) ==
  LET key == canonical_measurement(measurement)
      file(source) ==
        Ok(TableFile(source,
                     IF Days(age_days) > 2 * YEAR /\ key = "length"
                       THEN "height" ELSE key,
                     Lower(sex)))
  IN  IF key = "" THEN Err("UnknownMeasurement")
      ELSE IF Days(age_days) <= 2 * YEAR THEN file("who_growth_0_to_2")
      ELSE IF key = "head_circumference" /\ Days(age_days) > 5 * YEAR
        THEN Err("NoReferenceForRange")
      ELSE IF Days(age_days) <= 5 * YEAR THEN file("who_growth_2_to_5")
      ELSE IF Days(age_days) <= 10 * YEAR THEN file("who_growth_5_to_10")
      ELSE IF key = "weight" /\ Days(age_days) > 10 * YEAR
        THEN Err("NoReferenceForRange")
      ELSE IF Days(age_days) <= 19 * YEAR THEN file("who_growth_10_to_19")
      ELSE Err("NoReferenceForRange")

\* the sexes functional_data.py writes "_<sex>.json" files for
FunctionalSexes == {"m", "f"}

\* the "age" column of the data file of a source (whole days)
FileAges(source) ==
  CASE source = "who_growth_0_to_2" -> {0, 100, 730}
    [] source = "who_growth_2_to_5" -> {731, 1826}
    [] source = "who_growth_5_to_10" -> {1827, 3652}
    [] source = "who_growth_10_to_19" -> {3653, 6939}

\* the "l", "m", "s" columns of a data file: one power per source, one
\* median per sex, and a coefficient of variation of 1/10
FileLMS(table) ==
  LMS(CASE table.source = "who_growth_0_to_2" -> -1
        [] table.source = "who_growth_2_to_5" -> 1
        [] table.source = "who_growth_5_to_10" -> 0
        [] table.source = "who_growth_10_to_19" -> -1,
      IF table.sex = "m" THEN RInt(10) ELSE RInt(8),
      Rat(1, 10))

RECURSIVE SortedSeq(_)
\* list.sort(key = x): the elements of a set of numbers in increasing order
SortedSeq(S) ==
  IF S = {} THEN <<>>
  ELSE LET lo == CHOOSE a \in S : \A b \in S : a <= b
       IN  <<lo>> \o SortedSeq(S \ {lo})

Min(S) == CHOOSE x \in S : \A y \in S : x <= y
Max(S) == CHOOSE x \in S : \A y \in S : x >= y

\* functional_interpolate_lms: out of the file's range it raises; within
\* it, interpolate_values is handed (age_days, ages, column) in the place
\* of (x_values, y_values, x), so numpy.interp gets a scalar as its
\* x-coordinates and raises ValueError
functional_interpolate_lms(age_list, age_days) ==
  IF age_list = {} THEN Err("IndexError")
  ELSE IF age_days < Min(age_list) \/ age_days > Max(age_list)
    THEN Err("OutOfBounds")
  ELSE Err("ValueError")

\* _get_table_data taking the entry whose age is nearest below or at age_days
get_table_data_from_nearest(data, age_days) ==
  LET below == {i \in DOMAIN data.age : data.age[i] \div 100 <= age_days}
  IN  IF below = {}
        THEN functional_interpolate_lms({data.age[i] : i \in DOMAIN data.age},
                                        Days(age_days))
      ELSE LET age_index == Max(below)
           IN  Ok(LMS(data.l[age_index], data.m[age_index], data.s[age_index]))

\* _get_table_data once the file is loaded: the first entry whose age,
\* truncated by int(), is age_days; the ages of data are in hundredths of a day
get_table_data_from(data, age_days) ==
  LET found == {i \in DOMAIN data.age : data.age[i] \div 100 = age_days}
  IN  IF found = {}
        THEN functional_interpolate_lms({data.age[i] : i \in DOMAIN data.age},
                                        Days(age_days))
      ELSE LET age_index == Min(found)
           IN  Ok(LMS(data.l[age_index], data.m[age_index], data.s[age_index]))

\* the columns of the data file of a table
FileData(table) ==
  LET age == SortedSeq({Days(a) : a \in FileAges(table.source)})
  IN  [age |-> age,
       l |-> [i \in DOMAIN age |-> FileLMS(table).l],
       m |-> [i \in DOMAIN age |-> FileLMS(table).m],
       s |-> [i \in DOMAIN age |-> FileLMS(table).s]]

\* _get_table_data
get_table_data(table, age_days) ==
  IF table.sex \notin FunctionalSexes THEN Err("FileNotFoundError")
  ELSE get_table_data_from(FileData(table), age_days)

\* _zscore; age is in hundredths of a day and int(age) truncates it
_zscore(measurement, value, age, sex) ==
  LET sx == IF sex \notin {"M", "F"} THEN "F" ELSE sex
      age_days == age \div 100
      table == choose_table(measurement, age_days, sx)
      lms == get_table_data(table.val, age_days)
  IN  IF table.status = "error" THEN table
      ELSE IF lms.status = "error" THEN lms
      ELSE Ok([z |-> calculate_z_score(RInt(value), lms.val.l, lms.val.m,
                                       lms.val.s)])

\* _percentile
_percentile(measurement, value, age, sex) ==
  LET z == _zscore(measurement, value, age, sex)
  IN  IF z.status = "ok" THEN Ok(normal_cdf(z.val.z)) ELSE z

\* the keyword arguments that carry the age
AgeArgs(age, birth_date, measurement_date, years, months, days) ==
  [age |-> age, birth_date |-> birth_date,
   measurement_date |-> measurement_date, years |-> years,
   months |-> months, days |-> days]

\* the age the public functions hand on, NONE when they fall off their end
total_days(kwargs) ==
  IF kwargs.age # NONE THEN Days(kwargs.age)
  ELSE IF kwargs.birth_date # NONE /\ kwargs.measurement_date # NONE
    THEN Days(kwargs.measurement_date - kwargs.birth_date)
  ELSE IF kwargs.years # NONE /\ kwargs.months # NONE /\ kwargs.days # NONE
    THEN kwargs.years * YEAR + kwargs.months * MONTH + Days(kwargs.days)
  ELSE NONE

\* zscore
zscore(measurement, value, sex, kwargs) ==
  IF total_days(kwargs) = NONE THEN RetNone
  ELSE _zscore(measurement, value, total_days(kwargs), sex)

\* percentile
percentile(measurement, value, sex, kwargs) ==
  IF total_days(kwargs) = NONE THEN RetNone
  ELSE _percentile(measurement, value, total_days(kwargs), sex)

(***************************************************************************)
(* LMS extraction at a query x: src/utils/stats.py,                        *)
(* src/utils/decimal_stats.py, src/functional/data.py.  A table is the     *)
(* sequence of its x values in stored order; its row at x is RowLMS(x).    *)
(***************************************************************************)
\* the L, M, S columns of the tables of the model, by the row's x
RowLMS(x) ==
  [l |-> RSub(Rat(x, 100), RInt(1)), m |-> RAdd(RInt(10), Rat(x, 100)),
   s |-> Rat(1, 10)]

\* the bounds check without its upper half
interpolate_lms_unbounded_above(zscores, age_days) ==
  IF zscores = <<>> THEN RetNone
  ELSE IF age_days < zscores[1] THEN Err("OutOfBounds")
  ELSE Err("ValueError")

\* stats.interpolate_lms(zscores, age_days): None for no rows, out of bounds
\* against the first and the last row, and then interpolate_values handed
\* (age_days, ages, column) in the place of (x_values, y_values, x), which
\* numpy.interp refuses
interpolate_lms(zscores, age_days) ==
  IF zscores = <<>> THEN RetNone
  ELSE IF age_days < zscores[1] \/ age_days > zscores[Len(zscores)]
    THEN Err("OutOfBounds")
  ELSE Err("ValueError")

\* numpy.interp(x, xp, fp) for increasing xp and xp[1] <= x <= xp[-1]
np_interp(x, xp, fp) ==
  IF \E i \in 1..Len(xp) : xp[i] = x
    THEN fp[CHOOSE i \in 1..Len(xp) : xp[i] = x]
  ELSE LET i == CHOOSE j \in 1..(Len(xp) - 1) : xp[j] < x /\ x < xp[j + 1]
           slope == RDiv(RSub(fp[i + 1], fp[i]), RInt(xp[i + 1] - xp[i]))
       IN  RAdd(fp[i], RMul(slope, RInt(x - xp[i])))

\* decimal_stats.interpolate_lms(x_values, l_values, m_values, s_values, x);
\* the n_points = 4 closest rows are all the rows of a table of the model
decimal_interpolate_lms(x_values, x) ==
  IF x_values = <<>> THEN Err("IndexError")
  ELSE IF x < x_values[1] \/ x > x_values[Len(x_values)]
    THEN Err("OutOfBounds")
  ELSE LET l_values == [i \in DOMAIN x_values |-> RowLMS(x_values[i]).l]
           m_values == [i \in DOMAIN x_values |-> RowLMS(x_values[i]).m]
           s_values == [i \in DOMAIN x_values |-> RowLMS(x_values[i]).s]
       IN  Ok([l |-> np_interp(x, x_values, l_values),
               m |-> np_interp(x, x_values, m_values),
               s |-> np_interp(x, x_values, s_values)])

\* functional/data.py get_lms(table, x): the row at x, or
\* stats.interpolate_lms called with five positional arguments, which its
\* three parameters refuse
get_lms(table, x) ==
  IF \E i \in DOMAIN table.x : table.x[i] = x
    THEN LET index == CHOOSE i \in DOMAIN table.x :
                        table.x[i] = x /\ \A j \in DOMAIN table.x :
                                            table.x[j] = x => i <= j
         IN  Ok(LMS(table.L[index], table.M[index], table.S[index]))
  ELSE Err("TypeError")

(***************************************************************************)
(* Building the catalog: src/data/extract.py, src/data/transform.py; and   *)
(* the per-table files: src/data/objects.py, src/data/create_data.py.      *)
(* A raw file is [table, measurement_type, x_column, xs]: the table part   *)
(* of its name, its measurement, the header of its first column and that   *)
(* column's values in row order.                                           *)
(***************************************************************************)
TABLE_NAME_CHOICES ==
  {"growth", "child_growth", "very_preterm_growth", "very_preterm_newborn",
   "newborn"}

\* the vocabularies that _process_path checks a file name against
DATA_SOURCE_CHOICES == {"who", "intergrowth"}

SEX_CHOICES == {"M", "F", "U"}

MEASUREMENT_TYPE_CHOICES ==
  {"body_mass_index", "head_circumference", "stature", "weight",
   "weight_stature", "head_circumference_velocity", "length_velocity",
   "weight_velocity"}

X_VAR_NAME_CHOICES == {"age", "gestational_age", "stature"}

\* table.replace("birth", "newborn")
replace_birth(token) ==
  CASE token = "birth" -> "newborn"
    [] token = "very_preterm_birth" -> "very_preterm_newborn"
    [] OTHER -> token

\* measurement_type.replace("weight_stature", "weight_stature_ratio")
replace_weight_stature(token) ==
  CASE token = "weight_stature" -> "weight_stature_ratio"
    [] token = "weight_stature_ratio" -> "weight_stature_ratio_ratio"
    [] OTHER -> token

\* "birth" in filename
has_birth(parts) ==
  \E i \in DOMAIN parts : parts[i] \in {"birth", "very_preterm_birth"}

\* parts after parts.pop()
without_last(parts) == SubSeq(parts, 1, Len(parts) - 1)

\* the value of parts.pop()
pop(parts) == parts[Len(parts)]

\* RawTable._process_path on filename.split("-"): the tokens are popped from
\* the end, rewritten and checked against the vocabularies in turn
process_path(parts) ==
  LET popped == IF Len(parts) > 4 THEN without_last(parts) ELSE parts
      again == popped # <<>> /\ Upper(pop(popped)) \notin SEX_CHOICES
      rest == IF again THEN without_last(without_last(popped))
              ELSE IF popped # <<>> THEN without_last(popped) ELSE <<>>
  IN  IF popped = <<>> \/ (again /\ Len(popped) < 2) \/ Len(rest) < 3
        THEN Err("IndexError")
      ELSE
        LET sex == IF again THEN Upper(pop(without_last(popped)))
                   ELSE Upper(pop(popped))
            token == pop(rest)
            table == replace_birth(pop(without_last(rest)))
            source == pop(without_last(without_last(rest)))
            forced == token \in {"weight_length", "weight_height"}
            measurement_type ==
              replace_weight_stature(IF forced THEN "weight" ELSE token)
            x_var_type == IF forced THEN "stature"
                          ELSE IF has_birth(parts) THEN "gestational_age"
                          ELSE "age"
        IN  IF \/ source \notin DATA_SOURCE_CHOICES
               \/ table \notin TABLE_NAME_CHOICES
               \/ sex \notin SEX_CHOICES
               \/ measurement_type \notin MEASUREMENT_TYPE_CHOICES
               \/ x_var_type \notin X_VAR_NAME_CHOICES
              THEN Err("ValueError")
            ELSE Ok([source |-> source, table |-> table, sex |-> sex,
                     measurement_type |-> measurement_type,
                     x_var_type |-> x_var_type])

\* RawTable.from_csv: the taxonomy of the file comes from _process_path, whose
\* ValueError leaves from_csv; age_group starts as the table name
RawTable_from_csv(f) ==
  LET path == process_path(f.name)
  IN  IF path.status = "error" THEN path
      ELSE Ok([source |-> path.val.source, name |-> path.val.table,
               age_group |-> path.val.table, sex |-> path.val.sex,
               measurement_type |-> path.val.measurement_type,
               x_var_type |-> path.val.x_var_type, x_var_unit |-> f.x_column,
               points |-> f.xs])

\* int(round(x * MONTH)) for x >= 0 (x * 30.44 is never half-way)
RoundMonths(x) == (x * MONTH + 50) \div 100

\* transform_age_to_days(data)
transform_age_to_days(data) ==
  IF data.x_var_unit \in {"day", "days"} THEN [data EXCEPT !.x_var_unit = "day"]
  ELSE [data EXCEPT
          !.x_var_unit = "day",
          !.points = [i \in DOMAIN data.points |->
                        IF data.x_var_unit \in {"weeks", "week"}
                          THEN data.points[i] * WEEK
                        ELSE IF data.x_var_unit \in {"month", "months"}
                          THEN RoundMonths(data.points[i])
                        ELSE data.points[i]]]

\* join_data: the age group of a row of table t at x (x in days)
JoinedAgeGroup(t, x) ==
  IF t.age_group \in {"very_preterm_newborn", "newborn", "very_preterm_growth"}
    THEN t.age_group
  ELSE IF t.x_var_type = "stature" THEN t.age_group
  ELSE IF t.age_group # t.name THEN t.age_group
  ELSE IF 100 * x < 2 * YEAR THEN "0-2"
  ELSE IF 100 * x < 5 * YEAR THEN "2-5"
  ELSE IF 100 * x < 10 * YEAR THEN "5-10"
  ELSE "10-19"

\* join_data: the records of one table, in the order of its points
TableRecords(t) ==
  [i \in DOMAIN t.points |->
     [source |-> t.source, name |-> t.name,
      age_group |-> JoinedAgeGroup(t, t.points[i]), sex |-> t.sex,
      measurement_type |-> t.measurement_type, x_var_type |-> t.x_var_type,
      x_var_unit |-> IF t.x_var_type = "stature" THEN "cm" ELSE t.x_var_unit,
      x |-> t.points[i]]]

RECURSIVE join_data(_)
\* GrowthData.join_data: the records of every table, table after table
join_data(tables) ==
  IF tables = <<>> THEN <<>>
  ELSE TableRecords(Head(tables)) \o join_data(Tail(tables))

\* transform.main: every file read with from_csv (an exception leaves main),
\* then transform_all and save_parquet
transform_main(files) ==
  LET tables == [i \in DOMAIN files |-> RawTable_from_csv(files[i])]
  IN  IF \E i \in DOMAIN files : tables[i].status = "error"
        THEN Err("ValueError")
      ELSE Ok([rows |-> join_data([i \in DOMAIN files |->
                                     transform_age_to_days(tables[i].val)])])

\* int(x * MONTH) of Dataset.from_csv for x >= 0
TruncMonths(x) == (x * MONTH) \div 100

\* Dataset.from_csv: the x of the points, __post_init__ sorting them
Dataset_from_csv(f) ==
  SortedSeq({IF f.x_column = "month" THEN TruncMonths(f.xs[i])
             ELSE IF f.x_column = "weeks" THEN f.xs[i] * WEEK
             ELSE f.xs[i] : i \in DOMAIN f.xs})

RECURSIVE Concat(_)
Concat(seqs) ==
  IF seqs = <<>> THEN <<>> ELSE Head(seqs) \o Concat(Tail(seqs))

\* objects.GrowthData.consolidate_data: the points of every dataset, the
\* first of each x kept, sorted by x
consolidate_data(datasets) ==
  LET points == Concat(datasets)
  IN  SortedSeq({points[i] : i \in DOMAIN points})

RECURSIVE SelectOk(_)
\* the datasets of the files that were found, in order
SelectOk(files) ==
  IF files = <<>> THEN <<>>
  ELSE IF Head(files).found THEN <<Dataset_from_csv(Head(files))>> \o SelectOk(Tail(files))
  ELSE SelectOk(Tail(files))

\* create_data.main for one (source, dataset, measurement_type, sex): a file
\* that is not found is logged and skipped; a ValueError in a file (it has
\* neither the l, m, s columns nor all the SD columns) is logged for the
\* whole group, whose other files are not read and for which nothing is
\* written
create_data_group(files) ==
  LET bad == {i \in DOMAIN files : files[i].found /\ ~files[i].lms}
      first_bad == CHOOSE i \in bad : \A j \in bad : i <= j
      missing == {i \in DOMAIN files : ~files[i].found}
  IN  IF bad # {}
        THEN Ok([points |-> <<>>, written |-> FALSE,
                 logged |-> {i \in missing : i < first_bad} \cup {first_bad}])
      ELSE IF SelectOk(files) = <<>>
        THEN Ok([points |-> <<>>, written |-> FALSE, logged |-> missing])
      ELSE Ok([points |-> consolidate_data(SelectOk(files)), written |-> TRUE,
               logged |-> missing])

(***************************************************************************)
(* LMS estimation from SD columns: src/utils/stats.py,                     *)
(* src/utils/decimal_stats.py.  scipy's curve_fit is a numerical search:   *)
(* its outcome fit is [ok, l, s], the fitted (lambda, sigma) or a failure. *)
(***************************************************************************)
\* the index of zero in z_scores: np.where(z_scores == 0)[0][0]
ZeroIndex(z_scores) ==
  CHOOSE i \in DOMAIN z_scores :
    z_scores[i] = 0 /\ \A j \in DOMAIN z_scores : z_scores[j] = 0 => i <= j

\* stats.estimate_lms_from_sd(z_scores, values): (None, None, None) without
\* z = 0 and when the fit fails
estimate_lms_from_sd(z_scores, values, fit) ==
  IF ~(\E i \in DOMAIN z_scores : z_scores[i] = 0) THEN Ok([nones |-> 3])
  ELSE IF ~fit.ok THEN Ok([nones |-> 3])
  ELSE Ok([l |-> fit.l, m |-> RInt(values[ZeroIndex(z_scores)]), s |-> fit.s])

\* round(r, digits) of a rational
RRound(r, digits) ==
  LET p == RPow(RInt(10), digits)[1]
  IN  Rat((2 * r[1] * p + r[2]) \div (2 * r[2]), p)

\* decimal_stats.estimate_lms_from_sd(z_score_idx, z_score_values): ValueError
\* without z = 0; the exception of a failing fit leaves the function
decimal_estimate_lms_from_sd(z_score_idx, z_score_values, fit) ==
  IF ~(\E i \in DOMAIN z_score_idx : z_score_idx[i] = 0) THEN Err("ValueError")
  ELSE IF ~fit.ok THEN Err("RuntimeError")
  ELSE Ok([l |-> RRound(fit.l, 4),
           m |-> RRound(RInt(z_score_values[ZeroIndex(z_score_idx)]), 4),
           s |-> RRound(fit.s, 5)])

(***************************************************************************)
(* Table views over the catalog: src/data/load.py, src/functional/data.py. *)
(* The catalog is the sequence of the rows of the DataFrame; a GrowthTable *)
(* holds its own arrays x, L, M, S (and y once child data were added).     *)
(* An operation gives the object it leaves and the DataFrame it leaves.    *)
(***************************************************************************)
\* Python's None for an optional string argument
NoneStr == "None"

\* from_data: the rows left by the filters on name, age_group, x_var_type,
\* measurement_type and sex.Upper()
Filtered(data, name, age_group, measurement_type, sex, x_var_type) ==
  LET Keep(r) ==
        /\ name # NoneStr => r.name = name
        /\ age_group # NoneStr => r.age_group = age_group
        /\ x_var_type # NoneStr => r.x_var_type = x_var_type
        /\ r.measurement_type = measurement_type
        /\ r.sex = Upper(sex)
  IN  SelectSeq(data, Keep)

\* from_data taking the first source whatever the number of sources
from_data_first_source(data, name, age_group, measurement_type, sex, x_var_type) ==
  LET filtered == Filtered(data, name, age_group, measurement_type, sex, x_var_type)
  IN  IF name = NoneStr /\ age_group = NoneStr
        THEN [result |-> Err("ValueError"), data |-> data]
      ELSE IF filtered = <<>>
        THEN [result |-> Err("IndexError"), data |-> data]
      ELSE [result |-> Ok([source |-> filtered[1].source, name |-> filtered[1].name,
                           age_group |-> filtered[1].age_group,
                           measurement_type |-> measurement_type, sex |-> sex,
                           x_var_type |-> filtered[1].x_var_type,
                           x_var_unit |-> filtered[1].x_var_unit,
                           x |-> [i \in DOMAIN filtered |-> filtered[i].x],
                           L |-> [i \in DOMAIN filtered |-> filtered[i].l],
                           M |-> [i \in DOMAIN filtered |-> filtered[i].m],
                           S |-> [i \in DOMAIN filtered |-> filtered[i].s],
                           is_derived |-> [i \in DOMAIN filtered |->
                                            filtered[i].is_derived],
                           has_y |-> FALSE, y |-> <<>>]),
            data |-> data]

\* from_data filtering the DataFrame it was given instead of a copy
from_data_in_place(data, name, age_group, measurement_type, sex, x_var_type) ==
  LET filtered == Filtered(data, name, age_group, measurement_type, sex, x_var_type)
      unique_sources == {filtered[i].source : i \in DOMAIN filtered}
  IN  IF name = NoneStr /\ age_group = NoneStr
        THEN [result |-> Err("ValueError"), data |-> data]
      ELSE IF Cardinality(unique_sources) # 1
        THEN [result |-> Err("ValueError"), data |-> filtered]
      ELSE [result |-> from_data_first_source(data, name, age_group,
                         measurement_type, sex, x_var_type).result,
            data |-> filtered]

\* GrowthTable.from_data(data, name, age_group, measurement_type, sex,
\* x_var_type): the filters run on data.copy(), so data is left as it was
from_data(data, name, age_group, measurement_type, sex, x_var_type) ==
  LET filtered == Filtered(data, name, age_group, measurement_type, sex, x_var_type)
      unique_sources == {filtered[i].source : i \in DOMAIN filtered}
      unique_names == {filtered[i].name : i \in DOMAIN filtered}
      unique_age_groups == {filtered[i].age_group : i \in DOMAIN filtered}
      unique_x_var_types == {filtered[i].x_var_type : i \in DOMAIN filtered}
      preterm == {"very_preterm_newborn", "newborn", "very_preterm_growth"}
      kept ==
        IF Cardinality(unique_x_var_types) > 1
          THEN LET t == IF age_group \in preterm \/ name \in preterm
                          THEN "gestational_age" ELSE "age"
                   Keep(r) == r.x_var_type = t
               IN  SelectSeq(filtered, Keep)
        ELSE filtered
  IN  IF name = NoneStr /\ age_group = NoneStr
        THEN [result |-> Err("ValueError"), data |-> data]
      ELSE IF Cardinality(unique_sources) # 1
        THEN [result |-> Err("ValueError"), data |-> data]
      ELSE IF Cardinality(unique_names) # 1
        THEN [result |-> Err("ValueError"), data |-> data]
      ELSE IF kept = <<>>
        THEN [result |-> Err("IndexError"), data |-> data]
      ELSE [result |-> Ok([source |-> filtered[1].source, name |-> filtered[1].name,
                           age_group |-> IF Cardinality(unique_age_groups) > 1
                                           THEN NoneStr ELSE filtered[1].age_group,
                           measurement_type |-> measurement_type, sex |-> sex,
                           x_var_type |-> kept[1].x_var_type,
                           x_var_unit |-> kept[1].x_var_unit,
                           x |-> [i \in DOMAIN kept |-> kept[i].x],
                           L |-> [i \in DOMAIN kept |-> kept[i].l],
                           M |-> [i \in DOMAIN kept |-> kept[i].m],
                           S |-> [i \in DOMAIN kept |-> kept[i].s],
                           is_derived |-> [i \in DOMAIN kept |->
                                            kept[i].is_derived],
                           has_y |-> FALSE, y |-> <<>>]),
            data |-> data]

\* functional/data.py get_table(data, keys)
get_table(data, keys) ==
  from_data(data, keys.name, NoneStr, keys.measurement_type, keys.sex,
            keys.x_var_type)

\* cut_data keeping the rows outside the limits out of the DataFrame as well
cut_data_dropping_rows(self, data, lower_limit, upper_limit) ==
  LET Keep(r) ==
        ~(r.name = self.name /\ r.source = self.source /\ r.sex = Upper(self.sex)
            /\ r.measurement_type = self.measurement_type
            /\ (r.x < lower_limit \/ r.x > upper_limit))
      In(i) == self.x[i] >= lower_limit /\ self.x[i] <= upper_limit
      idx == SelectSeq([i \in DOMAIN self.x |-> i], In)
  IN  [self |-> [self EXCEPT !.x = [k \in DOMAIN idx |-> self.x[idx[k]]],
                             !.L = [k \in DOMAIN idx |-> self.L[idx[k]]],
                             !.M = [k \in DOMAIN idx |-> self.M[idx[k]]],
                             !.S = [k \in DOMAIN idx |-> self.S[idx[k]]],
                             !.is_derived =
                               [k \in DOMAIN idx |-> self.is_derived[idx[k]]]],
       data |-> SelectSeq(data, Keep), result |-> RetNone]

\* GrowthTable.cut_data(lower_limit, upper_limit): the mask over self.x picks
\* the rows of each array, each array being rebound to the picked copy; a
\* mask as long as x does not index L once add_child_data made x longer; y
\* is not among the arrays picked
cut_data(self, data, lower_limit, upper_limit) ==
  LET In(i) == self.x[i] >= lower_limit /\ self.x[i] <= upper_limit
      idx == SelectSeq([i \in DOMAIN self.x |-> i], In)
      x == [k \in DOMAIN idx |-> self.x[idx[k]]]
  IN  IF Len(self.L) # Len(self.x)
        THEN [self |-> [self EXCEPT !.x = x], data |-> data,
              result |-> Err("IndexError")]
      ELSE [self |-> [self EXCEPT !.x = x,
                                  !.L = [k \in DOMAIN idx |-> self.L[idx[k]]],
                                  !.M = [k \in DOMAIN idx |-> self.M[idx[k]]],
                                  !.S = [k \in DOMAIN idx |-> self.S[idx[k]]],
                                  !.is_derived =
                                    [k \in DOMAIN idx |->
                                       self.is_derived[idx[k]]]],
            data |-> data, result |-> RetNone]

\* GrowthTable.add_child_data(child_data): x becomes the sorted union of x and
\* the child's x, y the child's value at each x (the last one given) or None;
\* L, M, S and is_derived are not touched
add_child_data(self, data, child_data) ==
  IF ~child_data.columns
    THEN [self |-> self, data |-> data, result |-> Err("ValueError")]
  ELSE
    LET rows == child_data.rows
        x == SortedSeq({self.x[i] : i \in DOMAIN self.x}
                         \cup {rows[i].x : i \in DOMAIN rows})
        Last(v) == CHOOSE i \in DOMAIN rows :
                     rows[i].x = v /\ \A j \in DOMAIN rows : rows[j].x = v => j <= i
        y == [k \in DOMAIN x |->
                IF \E i \in DOMAIN rows : rows[i].x = x[k]
                  THEN rows[Last(x[k])].child ELSE NONE]
    IN  [self |-> [self EXCEPT !.x = x, !.y = y, !.has_y = TRUE],
         data |-> data, result |-> RetNone]

\* GrowthTable.convert_z_scores_to_values(z_scores): a new frame with, per z,
\* the value at z of every row; columns of different lengths make no frame
convert_z_scores_to_values(self, data, z_scores) ==
  IF Len(self.L) # Len(self.x)
    THEN [self |-> self, data |-> data, result |-> Err("ValueError")]
  ELSE [self |-> self, data |-> data,
        result |-> Ok([x |-> self.x,
                       values |-> [k \in DOMAIN z_scores |->
                                     [i \in DOMAIN self.x |->
                                        calculate_value_for_z_score(
                                          RInt(z_scores[k]), self.L[i],
                                          self.M[i], self.S[i])]],
                       y |-> self.y])]

(***************************************************************************)
(* Inputs of the model                                                     *)
(***************************************************************************)
MeasurementInputs ==
  {"stature", "lfa", "Height", "weight", "wfa", "head_circumference", "hc",
   "body_mass_index", "bmi", "weight_stature_ratio", "wfs", "wfl", "wfh", "WFH",
   "weight_length", "weight_height", "weight_stature", "Weight-Stature",
   "weight_for_stature", "weight_for_length", "weight-for-length",
   "weight_for_height", "weight_velocity", "length", "height_length",
   "nonsense"}

SexInputs == {"M", "F", "U", "m", "f", "u", "X"}

\* ages (hundredths of a day) around the thresholds of the resolvers
AgeThresholds ==
  {0, Days(5), Days(100), Days(64 * WEEK), 2 * YEAR, 5 * YEAR,
   Days((5 * YEAR) \div 100), 10 * YEAR, 19 * YEAR}

AgeInputs ==
  {t + Days(k) : t \in AgeThresholds, k \in (-AgeSlack)..AgeSlack}
    \ {a \in {t + Days(k) : t \in AgeThresholds, k \in (-AgeSlack)..AgeSlack} : a < 0}

\* gestational ages (days) around 28 days, 28 weeks and 40 weeks
GaThresholds == {28, 28 * WEEK, 40 * WEEK}

GaInputs == {t + k : t \in GaThresholds, k \in (-GaSlack)..GaSlack}

Opt(S) == S \cup {NONE}

\* measurement strings handed to the functional API
FunctionalMeasurements ==
  {"weight", "height", "length", "bmi", "head_circumference", "stature"}

\* sex strings handed to the functional API
FunctionalSexInputs == {"M", "F", "U", "X"}

\* measured values
ValueInputs == {5, 8, 10, 20}

\* ages as timedelta.days or as a difference of two dates: the rows of the
\* data files, an age between two rows and an age past 19 years
DayInputs == {0, 100, 101, 730, 731, 1826, 1827, 3652, 3653, 6939, 6940}

\* the largest years, months and days keyword arguments
MaxYears == 5
MaxMonths == 1
MaxDays == 1

AgeArgsInputs ==
  {AgeArgs(NONE, NONE, NONE, NONE, NONE, NONE)}
    \cup {AgeArgs(d, NONE, NONE, NONE, NONE, NONE) : d \in DayInputs}
    \cup {AgeArgs(NONE, 0, d, NONE, NONE, NONE) : d \in {100, 1827}}
    \cup {AgeArgs(NONE, 0, NONE, NONE, NONE, NONE)}
    \cup {AgeArgs(NONE, NONE, NONE, y, m, d) :
             y \in 0..MaxYears, m \in 0..MaxMonths, d \in 0..MaxDays}
    \cup {AgeArgs(NONE, NONE, NONE, y, NONE, NONE) : y \in 0..MaxYears}

\* the x values a table may hold and the most rows of a table
TableXs == {0, 100, 200}
MaxRows == 3

\* tables: sequences of distinct x values in any stored order
TableInputs ==
  {t \in UNION {[1..n -> TableXs] : n \in 0..MaxRows} :
     \A i, j \in 1..Len(t) : i # j => t[i] # t[j]}

\* tables whose x values increase
SortedTableInputs ==
  {t \in TableInputs : \A i \in 1..(Len(t) - 1) : t[i] < t[i + 1]}

\* the age column of a data file, in hundredths of a day and increasing
EntryInputs ==
  {SortedSeq(S) : S \in {T \in SUBSET {0, 10000, 10050, 20000} :
                           Cardinality(T) <= MaxRows}}

\* the whole days asked of a data file
AgeDayInputs == {-1, 0, 50, 100, 200, 201}

\* query x values: rows, values between rows and values off both ends
XInputs == {-1, 0, 50, 100, 150, 200, 201}

\* the values of the first column of a raw file and the most rows of a file
FileXs == {0, 1, 24}
MaxFileRows == 2

\* the rows of a raw file: increasing, as published
FileRowInputs ==
  {t \in UNION {[1..n -> FileXs] : n \in 1..MaxFileRows} :
     \A i \in 1..(Len(t) - 1) : t[i] < t[i + 1]}

\* the names of raw files, split at "-": "toddler" is no table name, "u" a sex
\* token of the vocabulary, "weight_stature" the weight-for-stature token
RawFileNames ==
  {<<"who", "growth", "weight", "f">>, <<"who", "growth", "stature", "f">>,
   <<"who", "toddler", "weight", "f">>, <<"who", "growth", "stature", "u">>,
   <<"who", "growth", "weight_stature", "f">>}

\* raw files of transform.main
RawFileInputs ==
  [name : RawFileNames, x_column : {"days", "month"}, xs : FileRowInputs]

\* file names of _process_path, with and without variant suffixes
PathInputs ==
  {<<source, table, measurement, sex>> \o suffix :
     source \in {"who", "cdc"}, table \in {"growth", "birth", "toddler"},
     measurement \in {"stature", "weight_stature", "weight_length",
                      "weight_velocity"},
     sex \in {"m", "f", "u", "x"},
     suffix \in {<<>>, <<"lms">>, <<"1mon", "lms">>}}
   \cup {<<"who", "growth", "weight_velocity", "m", "1mon">>,
         <<"growth", "stature", "m">>, <<"stature", "1mon">>}

\* ages in days on either side of the limits of the age groups, and the
\* measurement types of a query
AgeGroupInputs ==
  {0, 1, 2, 3, 5, 6, 10, 11, 19, 20, 730, 731, 1826, 1827, 3652, 3653}

AgeGroupMeasurementInputs == {"stature", "weight_velocity"}

\* the most raw files of a run
MaxFiles == 2

\* raw files of one group of create_data.main
GroupFileInputs ==
  [found : BOOLEAN, lms : BOOLEAN, x_column : {"days", "month"},
   xs : FileRowInputs]

\* the largest |z| of an SD column
MaxZ == 2

\* the z indices of the SD columns given: increasing, any columns missing
ZScoreInputs ==
  {t \in UNION {[1..n -> (-MaxZ)..MaxZ] : n \in 1..(2 * MaxZ + 1)} :
     \A i \in 1..(Len(t) - 1) : t[i] < t[i + 1]}

\* the value of the SD column of index z
SdValue(z) == 100 + 5 * z

\* outcomes of curve_fit, which is called without bounds: the parameters it
\* stops at, inside or outside the range lms_func clips them to, or a failure
FitInputs ==
  {[ok |-> TRUE, l |-> Rat(1, 3), s |-> Rat(1, 20)],
   [ok |-> TRUE, l |-> Rat(-1, 10), s |-> Rat(1, 16)],
   [ok |-> TRUE, l |-> Rat(3, 2), s |-> Rat(1, 20)],
   [ok |-> TRUE, l |-> Rat(1, 3), s |-> Rat(6, 5)],
   [ok |-> FALSE, l |-> RInt(0), s |-> RInt(0)]}

\* a row of the catalog: a table's row at x days
CatalogRow(source, name, sex, x) ==
  [source |-> source, name |-> name, age_group |-> "0-2", sex |-> sex,
   measurement_type |-> "stature", x_var_type |-> "age", x_var_unit |-> "day",
   x |-> x, l |-> (x \div 100) - 1, m |-> RAdd(RInt(10), Rat(x, 100)),
   s |-> Rat(1, 10), is_derived |-> (x = 100)]

\* the tables a catalog may hold, each with rows at 0 and 100 days
BlockInputs ==
  <<[source |-> "who", name |-> "growth", sex |-> "M"],
    [source |-> "intergrowth", name |-> "growth", sex |-> "M"],
    [source |-> "who", name |-> "child_growth", sex |-> "M"]>>

RECURSIVE CatalogOf(_, _)
\* the catalog holding the blocks of the set S, in the order of BlockInputs
CatalogOf(S, i) ==
  IF i > Len(BlockInputs) THEN <<>>
  ELSE (IF i \in S
          THEN <<CatalogRow(BlockInputs[i].source, BlockInputs[i].name,
                            BlockInputs[i].sex, 0),
                 CatalogRow(BlockInputs[i].source, BlockInputs[i].name,
                            BlockInputs[i].sex, 100)>>
        ELSE <<>>) \o CatalogOf(S, i + 1)

CatalogInputs == {CatalogOf(S, 1) : S \in SUBSET DOMAIN BlockInputs}

\* the arguments of from_data: get_table passes a name and no age group
FromDataInputs ==
  [name : {"growth", "child_growth", NoneStr}, age_group : {NoneStr, "0-2"},
   measurement_type : {"stature"}, sex : {"M", "m", "F"}, x_var_type : {"age"}]

KeyInputs == {k \in FromDataInputs : k.name # NoneStr /\ k.age_group = NoneStr}

\* the most GrowthTable objects the caller keeps
MaxViews == 1

\* limits of cut_data
CutInputs == {<<0, 0>>, <<100, 200>>}

\* frames of add_child_data: with the columns x and child, a measurement
\* between the rows of the table or at one of them, and one without
ChildInputs ==
  {[columns |-> TRUE, rows |-> <<[x |-> 50, child |-> 7]>>],
   [columns |-> TRUE, rows |-> <<[x |-> 100, child |-> 7]>>],
   [columns |-> FALSE, rows |-> <<>>]}

\* z_scores of convert_z_scores_to_values
ZListInputs == {<<-2, 0, 2>>}

\* the catalog the threads share: the child_growth table of each sex
ThreadCatalog ==
  <<CatalogRow("who", "child_growth", "M", 0),
    CatalogRow("who", "child_growth", "M", 100),
    CatalogRow("who", "child_growth", "F", 0),
    CatalogRow("who", "child_growth", "F", 100)>>

\* the queries of the threads: x is the age in days
QueryInputs ==
  [kind : {"zscore", "percentile"}, measurement : {"stature"}, sex : {"M", "F"},
   x : {0, 50, 100}, value : {12}]

\* the most threads calling at once
MaxThreads == 2

\* the classes that keep a list of measurements
Classes == {"Handler", "AdderMixin"}

\* the dates of the measurements, as day numbers
DateInputs == {1, 2}

\* the date lists of the collections passed in one call
BatchInputs == UNION {[1..n -> DateInputs] : n \in 0..2}

\* the most measurements passed to one object, and the longest list that
\* takes another call
MaxAdded == 3

\* LMS parameters handed to the kernel
LInputs == {-2, -1, 0, 1, 2}
MInputs == {8, 10}
SInputs == {Rat(1, 10), Rat(1, 5)}

(***************************************************************************)
(* Actions                                                                 *)
(***************************************************************************)
\* no call is in progress: the caller is between two calls
Idle == [op |-> "idle"]

GetKeys ==
  /\ call = Idle
  /\ \E measurement \in MeasurementInputs, sex \in SexInputs,
     age_days \in Opt(AgeInputs), gestational_age \in Opt(GaInputs) :
       /\ call' = [op |-> "get_keys", measurement |-> measurement, sex |-> sex,
                   age_days |-> age_days, gestational_age |-> gestational_age]
       /\ ret' = get_keys(measurement, sex, age_days, gestational_age)
  /\ UNCHANGED objects

WholeDayAges == {a \in AgeInputs : a % 100 = 0}

ComputerGetTableName ==
  /\ call = Idle
  /\ \E measurement_age_days \in WholeDayAges,
        is_very_preterm \in {"True", "False", "None"} :
       /\ call' = [op |-> "Computer._get_table_name",
                   age_days |-> measurement_age_days,
                   is_very_preterm |-> is_very_preterm]
       /\ ret' = Ok([name |-> Computer_get_table_name(measurement_age_days,
                                                        is_very_preterm)])
  /\ UNCHANGED objects

ZScore ==
  /\ call = Idle
  /\ \E measurement \in FunctionalMeasurements, value \in ValueInputs,
        sex \in FunctionalSexInputs, kwargs \in AgeArgsInputs :
       /\ call' = [op |-> "zscore", measurement |-> measurement,
                   value |-> value, sex |-> sex, kwargs |-> kwargs]
       /\ ret' = zscore(measurement, value, sex, kwargs)
  /\ UNCHANGED objects

Percentile ==
  /\ call = Idle
  /\ \E measurement \in FunctionalMeasurements, value \in ValueInputs,
        sex \in FunctionalSexInputs, kwargs \in AgeArgsInputs :
       /\ call' = [op |-> "percentile", measurement |-> measurement,
                   value |-> value, sex |-> sex, kwargs |-> kwargs]
       /\ ret' = percentile(measurement, value, sex, kwargs)
  /\ UNCHANGED objects

CalculateZScore ==
  /\ call = Idle
  /\ \E value \in ValueInputs, l \in LInputs, m \in MInputs, s \in SInputs :
       /\ call' = [op |-> "calculate_z_score", value |-> value, l |-> l,
                   m |-> m, s |-> s]
       /\ ret' = Ok([z |-> calculate_z_score(RInt(value), l, RInt(m), s)])
  /\ UNCHANGED objects

TableDataInit ==
  /\ call = Idle
  /\ \E sex \in SexInputs :
       /\ call' = [op |-> "TableData", sex |-> sex]
       /\ ret' = TableData_init(sex)
  /\ UNCHANGED objects

\* the powers 1 / lamb of value-for-z are integers for lamb in -1..1
TableDataCalculateZScore ==
  /\ call = Idle
  /\ \E y \in ValueInputs, lamb \in {l \in LInputs : l \in -1..1},
        mu \in MInputs, sigm \in SInputs :
       /\ call' = [op |-> "TableData._calculate_z_score", value |-> y,
                   l |-> lamb, m |-> mu, s |-> sigm]
       /\ ret' = Ok([z |-> TableData_calculate_z_score(RInt(y), lamb,
                                                       RInt(mu), sigm)])
  /\ UNCHANGED objects

InterpolateLms ==
  /\ call = Idle
  /\ \E zscores \in TableInputs, age_days \in XInputs :
       /\ call' = [op |-> "stats.interpolate_lms", table |-> zscores,
                   x |-> age_days]
       /\ ret' = interpolate_lms(zscores, age_days)
  /\ UNCHANGED objects

DecimalInterpolateLms ==
  /\ call = Idle
  /\ \E x_values \in SortedTableInputs, x \in XInputs :
       /\ call' = [op |-> "decimal_stats.interpolate_lms", table |-> x_values,
                   x |-> x]
       /\ ret' = decimal_interpolate_lms(x_values, x)
  /\ UNCHANGED objects

GetLms ==
  /\ call = Idle
  /\ \E table_x \in TableInputs, x \in XInputs :
       /\ call' = [op |-> "get_lms", table |-> table_x, x |-> x]
       /\ ret' = get_lms([x |-> table_x,
                          L |-> [i \in DOMAIN table_x |-> RowLMS(table_x[i]).l],
                          M |-> [i \in DOMAIN table_x |-> RowLMS(table_x[i]).m],
                          S |-> [i \in DOMAIN table_x |-> RowLMS(table_x[i]).s]], x)
  /\ UNCHANGED objects

TableDataGetLms ==
  /\ call = Idle
  /\ \E table_x \in TableInputs, x \in XInputs :
       /\ call' = [op |-> "TableData.get_lms", table |-> table_x, x |-> x]
       /\ ret' = TableData_get_lms(
                   [x |-> table_x,
                    l |-> [i \in DOMAIN table_x |-> RowLMS(table_x[i]).l],
                    m |-> [i \in DOMAIN table_x |-> RowLMS(table_x[i]).m],
                    s |-> [i \in DOMAIN table_x |-> RowLMS(table_x[i]).s]], x)
  /\ UNCHANGED objects

GetTableData ==
  /\ call = Idle
  /\ \E age \in EntryInputs, age_days \in AgeDayInputs :
       /\ call' = [op |-> "_get_table_data", table |-> age, x |-> age_days]
       /\ ret' = get_table_data_from(
                   [age |-> age,
                    l |-> [i \in DOMAIN age |-> RowLMS(age[i]).l],
                    m |-> [i \in DOMAIN age |-> RowLMS(age[i]).m],
                    s |-> [i \in DOMAIN age |-> RowLMS(age[i]).s]], age_days)
  /\ UNCHANGED objects

TableDataGetAgeGroup ==
  /\ call = Idle
  /\ \E x \in AgeGroupInputs, newborn \in BOOLEAN, very_preterm \in BOOLEAN :
       /\ call' = [op |-> "TableData.get_age_group", x |-> x,
                   newborn |-> newborn, very_preterm |-> very_preterm]
       /\ ret' = TableData_get_age_group(Days(x), newborn, very_preterm)
  /\ UNCHANGED objects

ComputerGetAgeGroup ==
  /\ call = Idle
  /\ \E x \in AgeGroupInputs, measurement_type \in AgeGroupMeasurementInputs,
        is_very_preterm \in {"True", "False", "None"} :
       /\ call' = [op |-> "Computer._get_age_group", x |-> x,
                   measurement_type |-> measurement_type,
                   is_very_preterm |-> is_very_preterm]
       /\ ret' = Computer_get_age_group(Days(x), measurement_type,
                                        is_very_preterm)
  /\ UNCHANGED objects

TransformMain ==
  /\ call = Idle
  /\ \E n \in 1..MaxFiles : \E files \in [1..n -> RawFileInputs] :
       /\ call' = [op |-> "transform.main", files |-> files]
       /\ ret' = transform_main(files)
  /\ UNCHANGED objects

ProcessPath ==
  /\ call = Idle
  /\ \E parts \in PathInputs :
       /\ call' = [op |-> "RawTable._process_path", parts |-> parts]
       /\ ret' = process_path(parts)
  /\ UNCHANGED objects

CreateDataMain ==
  /\ call = Idle
  /\ \E n \in 1..MaxFiles : \E files \in [1..n -> GroupFileInputs] :
       /\ call' = [op |-> "create_data.main", files |-> files]
       /\ ret' = create_data_group(files)
  /\ UNCHANGED objects

EstimateLmsFromSd ==
  /\ call = Idle
  /\ \E z_scores \in ZScoreInputs, fit \in FitInputs :
       /\ call' = [op |-> "stats.estimate_lms_from_sd", z_scores |-> z_scores,
                   fit |-> fit]
       /\ ret' = estimate_lms_from_sd(z_scores,
                    [i \in DOMAIN z_scores |-> SdValue(z_scores[i])], fit)
  /\ UNCHANGED objects

DecimalEstimateLmsFromSd ==
  /\ call = Idle
  /\ \E z_score_idx \in ZScoreInputs, fit \in FitInputs :
       /\ call' = [op |-> "decimal_stats.estimate_lms_from_sd",
                   z_scores |-> z_score_idx, fit |-> fit]
       /\ ret' = decimal_estimate_lms_from_sd(z_score_idx,
                    [i \in DOMAIN z_score_idx |-> SdValue(z_score_idx[i])], fit)
  /\ UNCHANGED objects

\* the caller takes the result (or catches the exception) and goes on
Return ==
  /\ call # Idle
  /\ call' = Idle
  /\ ret' = RetNone

  /\ UNCHANGED objects

\* a GrowthTable is asked of the catalog with get_table; the caller keeps it
\* while there is room for it
GetTable ==
  /\ call = Idle
  /\ \E keys \in KeyInputs :
       LET r == get_table(catalog, keys)
       IN  /\ call' = [op |-> "get_table", key |-> keys]
           /\ ret' = r.result
           /\ catalog' = r.data
           /\ views' = IF r.result.status = "ok" /\ Len(views) < MaxViews
                         THEN Append(views, r.result.val)
                       ELSE views
  /\ UNCHANGED <<loaded, threads, measurements, added, child, patient>>

\* a GrowthTable is made with from_data by age group
FromData ==
  /\ call = Idle
  /\ \E args \in FromDataInputs \ KeyInputs :
       LET r == from_data(catalog, args.name, args.age_group,
                          args.measurement_type, args.sex, args.x_var_type)
       IN  /\ call' = [op |-> "from_data", key |-> args]
           /\ ret' = r.result
           /\ catalog' = r.data
           /\ views' = IF r.result.status = "ok" /\ Len(views) < MaxViews
                         THEN Append(views, r.result.val)
                       ELSE views
  /\ UNCHANGED <<loaded, threads, measurements, added, child, patient>>

CutData ==
  /\ call = Idle
  /\ \E v \in DOMAIN views, limits \in CutInputs :
       LET r == cut_data(views[v], catalog, limits[1], limits[2])
       IN  /\ call' = [op |-> "cut_data", view |-> v, limits |-> limits]
           /\ ret' = r.result
           /\ catalog' = r.data
           /\ views' = [views EXCEPT ![v] = r.self]
  /\ UNCHANGED <<loaded, threads, measurements, added, child, patient>>

AddChildData ==
  /\ call = Idle
  /\ \E v \in DOMAIN views, child_data \in ChildInputs :
       LET r == add_child_data(views[v], catalog, child_data)
       IN  /\ call' = [op |-> "add_child_data", view |-> v, child |-> child_data]
           /\ ret' = r.result
           /\ catalog' = r.data
           /\ views' = [views EXCEPT ![v] = r.self]
  /\ UNCHANGED <<loaded, threads, measurements, added, child, patient>>

ConvertZScoresToValues ==
  /\ call = Idle
  /\ \E v \in DOMAIN views, z_scores \in ZListInputs :
       LET r == convert_z_scores_to_values(views[v], catalog, z_scores)
       IN  /\ call' = [op |-> "convert_z_scores_to_values", view |-> v,
                       z_list |-> z_scores]
           /\ ret' = r.result
           /\ catalog' = r.data
           /\ views' = [views EXCEPT ![v] = r.self]
  /\ UNCHANGED <<loaded, threads, measurements, added, child, patient>>

\* a thread that has not started its call
NewThread(query) ==
  [pc |-> "start", query |-> query, keys |-> RetNone, table |-> RetNone,
   lms |-> RetNone, result |-> RetNone]

\* a raised exception ends the call of the thread
Raise(thread, error) == [thread EXCEPT !.pc = "done", !.result = error]

\* thread t resolves its keys: get_keys(measurement, sex, age_days)
ThreadGetKeys(t) ==
  /\ threads[t].pc = "start"
  /\ LET q == threads[t].query
         keys == get_keys(q.measurement, q.sex, Days(q.x), NONE)
     IN  threads' = [threads EXCEPT ![t] =
                       IF keys.status = "error" THEN Raise(@, keys)
                       ELSE [@ EXCEPT !.pc = "keys", !.keys = keys]]
  /\ UNCHANGED <<call, ret, catalog, views, loaded, measurements, added, child, patient>>

\* thread t makes its table from the shared DataFrame: get_table(data, keys)
ThreadGetTable(t) ==
  /\ threads[t].pc = "keys"
  /\ LET r == get_table(catalog, threads[t].keys.val)
     IN  /\ catalog' = r.data
         /\ threads' = [threads EXCEPT ![t] =
                          IF r.result.status = "error" THEN Raise(@, r.result)
                          ELSE [@ EXCEPT !.pc = "table", !.table = r.result]]
  /\ UNCHANGED <<call, ret, views, loaded, measurements, added, child, patient>>

\* thread t reads L, M, S of its table: get_lms(table, x)
ThreadGetLms(t) ==
  /\ threads[t].pc = "table"
  /\ LET lms == get_lms(threads[t].table.val, threads[t].query.x)
     IN  threads' = [threads EXCEPT ![t] =
                       IF lms.status = "error" THEN Raise(@, lms)
                       ELSE [@ EXCEPT !.pc = "lms", !.lms = lms]]
  /\ UNCHANGED <<call, ret, catalog, views, loaded, measurements, added, child, patient>>

\* thread t computes its answer: calculate_z_score, and normal_cdf of it for
\* a percentile
ThreadCompute(t) ==
  /\ threads[t].pc = "lms"
  /\ LET lms == threads[t].lms.val
         z == calculate_z_score(RInt(threads[t].query.value), lms.l, lms.m, lms.s)
     IN  threads' = [threads EXCEPT ![t] =
                       [@ EXCEPT !.pc = "done",
                                 !.result = IF threads[t].query.kind = "zscore"
                                              THEN Ok([z |-> z])
                                            ELSE Ok([percentile |-> normal_cdf(z)])]]
  /\ UNCHANGED <<call, ret, catalog, views, loaded, measurements, added, child, patient>>

(***************************************************************************)
(* The subject: calculator/child.py and oop/patient.py.  Dates are day     *)
(* numbers, time spans are whole days.                                     *)
(***************************************************************************)
\* datetime.date.today()
Today == 1100

\* before a Child or a Patient is constructed
NoChild ==
  [sex |-> "U", birthday_date |-> NONE, gestational_age |-> NONE,
   is_very_preterm |-> "None", term |-> NoneStr, lmp_date |-> NONE,
   chronological_age |-> NONE]

NoPatient ==
  [sex |-> "U", birthday_date |-> NONE, gestational_age_weeks |-> NONE,
   gestational_age_days |-> NONE, measurements |-> <<>>,
   gestational_age |-> NONE, is_born |-> FALSE, is_very_preterm |-> "None"]

\* a bool attribute, which may also hold None or not be set
Bool(b) == IF b THEN "True" ELSE "False"

\* datetime.timedelta(weeks=weeks, days=days).days
timedelta(weeks, days) == weeks * WEEK + days

Child_get_term_status(self) ==
  IF self.gestational_age = NONE THEN NoneStr
  ELSE LET ga_days == self.gestational_age
       IN  IF ga_days < 28 * WEEK THEN "extreme_preterm"
           ELSE IF ga_days < 32 * WEEK THEN "very_preterm"
           ELSE IF ga_days < 34 * WEEK THEN "moderate_preterm"
           ELSE IF ga_days < 37 * WEEK THEN "late_preterm"
           ELSE IF ga_days < 39 * WEEK THEN "early_term"
           ELSE IF ga_days < 42 * WEEK THEN "full_term"
           ELSE "postterm"

\* Child._setup; a timedelta of no days is false.  The object keeps what was
\* assigned before _get_chronological_age raised
Child_setup(self) ==
  LET has_age == self.gestational_age # NONE /\ self.gestational_age # 0
      dated == [self EXCEPT
                  !.term = Child_get_term_status(self),
                  !.lmp_date = IF has_age
                                 THEN self.birthday_date - self.gestational_age
                               ELSE NONE,
                  !.is_very_preterm =
                     IF has_age THEN Bool(self.gestational_age < 32 * WEEK) ELSE @,
                  !.chronological_age = NONE]
  IN  IF dated.is_very_preterm # "True" THEN [self |-> dated, result |-> RetNone]
      ELSE IF dated.lmp_date = NONE
        THEN [self |-> dated, result |-> Err("ValueError")]
      ELSE [self |-> [dated EXCEPT !.chronological_age = Today - dated.lmp_date],
            result |-> RetNone]

\* Child(birthday_date, sex, gestational_age_weeks, gestational_age_days);
\* NONE for an argument left out
Child_init(birthday_date, sex, gestational_age_weeks, gestational_age_days) ==
  LET days == IF gestational_age_days = NONE THEN 0 ELSE gestational_age_days
      given == gestational_age_weeks # NONE
  IN  Child_setup([sex |-> sex, birthday_date |-> birthday_date,
                   gestational_age |-> IF given
                                         THEN timedelta(gestational_age_weeks, days)
                                       ELSE NONE,
                   is_very_preterm |-> IF given THEN Bool(gestational_age_weeks < 32)
                                       ELSE "None",
                   term |-> NoneStr, lmp_date |-> NONE, chronological_age |-> NONE])

Child_set_gestational_age(self, gestational_age_weeks, gestational_age_days) ==
  Child_setup([self EXCEPT
                 !.gestational_age = timedelta(gestational_age_weeks,
                                               gestational_age_days)])

\* Child.age(date)
Child_age(self, date) ==
  IF self.is_very_preterm = "True" /\ self.lmp_date = NONE THEN Err("ValueError")
  ELSE IF self.is_very_preterm = "True" /\ date - self.lmp_date <= 64 * WEEK
    THEN Ok([days |-> date - self.lmp_date])
  ELSE Ok([days |-> date - self.birthday_date])

\* Patient._setup, run by __post_init__; is_very_preterm stays unset for a
\* patient without a birthday
Patient_setup(self) ==
  LET is_born == self.birthday_date # NONE
  IN  [self EXCEPT
         !.is_born = is_born,
         !.gestational_age = timedelta(self.gestational_age_weeks,
                                       self.gestational_age_days),
         !.is_very_preterm = IF is_born THEN Bool(self.gestational_age_weeks < 32)
                             ELSE @]

\* Patient(sex, birthday_date, gestational_age_weeks, gestational_age_days)
Patient_init(sex, birthday_date, gestational_age_weeks, gestational_age_days) ==
  Patient_setup([sex |-> sex, birthday_date |-> birthday_date,
                 gestational_age_weeks |-> gestational_age_weeks,
                 gestational_age_days |-> gestational_age_days,
                 measurements |-> <<>>, gestational_age |-> NONE,
                 is_born |-> FALSE, is_very_preterm |-> "None"])

\* Patient.age(date)
Patient_age(self, date) ==
  IF self.birthday_date = NONE THEN Err("ValueError")
  ELSE IF date < self.birthday_date THEN Err("ValueError")
  ELSE Ok([days |-> date - self.birthday_date])

\* Patient.chronological_age(date); without a birthday the result is
\* date - timedelta, a date
Patient_chronological_age(self, date) ==
  IF self.birthday_date # NONE
    THEN LET age == date - (self.birthday_date - self.gestational_age)
         IN  IF age > 64 THEN Patient_age(self, date)
             ELSE Ok([days |-> age])
  ELSE Ok([date |-> date - self.gestational_age])

\* MeasurementGroup._setup: the derived metrics exist once weight and stature do
MeasurementGroup_setup(group) ==
  [group EXCEPT !.derived = @ \/ (group.weight # NONE /\ group.stature # NONE)]

\* MeasurementGroup(table_name, date, stature, weight, head_circumference)
MeasurementGroup(table_name, date, stature, weight, head_circumference) ==
  MeasurementGroup_setup([table_name |-> table_name, date |-> date,
                          stature |-> stature, weight |-> weight,
                          head_circumference |-> head_circumference,
                          derived |-> FALSE])

\* setattr(group, measurement_type, value)
setattr(group, measurement_type, value) ==
  IF measurement_type = "stature" THEN [group EXCEPT !.stature = value]
  ELSE IF measurement_type = "weight" THEN [group EXCEPT !.weight = value]
  ELSE [group EXCEPT !.head_circumference = value]

\* Patient.add_measurement(measurement): the first group of the date takes the
\* value, else a new group is appended
Patient_add_measurement(self, measurement) ==
  LET groups == self.measurements
      same == {i \in DOMAIN groups : groups[i].date = measurement.date}
  IN  IF same # {}
        THEN LET i == CHOOSE k \in same : \A j \in same : k <= j
             IN  [self EXCEPT !.measurements[i] =
                    MeasurementGroup_setup(setattr(@, measurement.measurement_type,
                                                   measurement.value))]
      ELSE [self EXCEPT !.measurements =
              Append(@, MeasurementGroup_setup(
                          setattr(MeasurementGroup(measurement.table_name,
                                                   measurement.date, NONE, NONE, NONE),
                                  measurement.measurement_type, measurement.value)))]

\* Patient.add_measurements(measurements): the group is appended
Patient_add_measurements(self, group) ==
  [self EXCEPT !.measurements = Append(@, group)]

(***************************************************************************)
(* The measurement lists: calculator/handler.py and calculator/mixins.py   *)
(***************************************************************************)
\* a Measurement object: id tells the objects of one date apart
Measurement(date, id) ==
  [kind |-> "Measurement", date |-> date, id |-> id, computed |-> FALSE,
   members |-> <<>>]

\* a list object holding Measurement objects; it has no date
Collection(ms) ==
  [kind |-> "list", date |-> NONE, id |-> 0, computed |-> FALSE,
   members |-> [i \in DOMAIN ms |-> [date |-> ms[i].date, id |-> ms[i].id]]]

\* the objects made for the dates of one call, numbered after the n passed
\* to the object before
NewMeasurements(dates, n) == [i \in DOMAIN dates |-> Measurement(dates[i], n + i)]

\* compute_measurement sets the z-scores of the object
compute_measurement(measurement) == [measurement EXCEPT !.computed = TRUE]

\* a stable sort by date
RECURSIVE SortedByDate(_)
SortedByDate(list) ==
  IF list = <<>> THEN <<>>
  ELSE LET front == SortedByDate(SubSeq(list, 1, Len(list) - 1))
           m == list[Len(list)]
           k == Cardinality({i \in DOMAIN front : front[i].date <= m.date})
       IN  SubSeq(front, 1, k) \o <<m>> \o SubSeq(front, k + 1, Len(front))

\* self._measurements.sort(key=lambda m: m.date): the keys are taken first,
\* and an element without a date leaves the list as it is
list_sort(list) ==
  IF \E i \in DOMAIN list : list[i].kind # "Measurement"
    THEN [list |-> list, result |-> Err("AttributeError")]
  ELSE [list |-> SortedByDate(list), result |-> RetNone]

Handler_add_measurement(self, keyword, date, id) ==
  IF keyword # "length_height" THEN [list |-> self, result |-> Err("TypeError")]
  ELSE list_sort(Append(self, Measurement(date, id)))

Handler_add_measurement_object(self, measurement) ==
  list_sort(Append(self, measurement))

Handler_add_measurements(self, list_of_measurements) ==
  list_sort(self \o list_of_measurements)

\* the parameter is *measurements: one collection is one argument
Handler_add_measurement_objects(self, style, ms) ==
  IF style = "varargs" THEN list_sort(self \o ms)
  ELSE list_sort(Append(self, Collection(ms)))

AdderMixin_add_measurement_object(self, measurement) ==
  list_sort(Append(self, compute_measurement(measurement)))

AdderMixin_add_measurement(self, keyword, date, id) ==
  IF keyword # "stature" THEN [list |-> self, result |-> Err("TypeError")]
  ELSE AdderMixin_add_measurement_object(self, Measurement(date, id))

\* the parameter is one collection
AdderMixin_add_measurement_objects(self, style, ms) ==
  IF style = "varargs" THEN [list |-> self, result |-> Err("TypeError")]
  ELSE list_sort(self \o [i \in DOMAIN ms |-> compute_measurement(ms[i])])

AdderMixin_add_measurements(self, ms) ==
  AdderMixin_add_measurement_objects(self, "collection", ms)

\* the call did not bind its arguments: nothing was passed to the object
Unbound(result) == result.status = "error" /\ result.kind = "TypeError"

\* one call on the object of class cls, passing the measurements of dates
Added(cls, op, keyword, style, dates, r) ==
  /\ Len(added[cls]) + Len(dates) <= MaxAdded
  /\ Len(measurements[cls]) < MaxAdded
  /\ call' = [op |-> op, cls |-> cls, keyword |-> keyword, style |-> style,
              dates |-> dates]
  /\ ret' = r.result
  /\ measurements' = [measurements EXCEPT ![cls] = r.list]
  /\ added' = [added EXCEPT ![cls] = IF Unbound(r.result) THEN @ ELSE @ \o dates]
  /\ UNCHANGED <<catalog, views, loaded, threads, child, patient>>

AddMeasurement ==
  \E cls \in DOMAIN measurements, keyword \in {"stature", "length_height"}, date \in DateInputs :
    LET self == measurements[cls]
        id == Len(added[cls]) + 1
    IN  Added(cls, "add_measurement", keyword, "values", <<date>>,
              IF cls = "Handler" THEN Handler_add_measurement(self, keyword, date, id)
              ELSE AdderMixin_add_measurement(self, keyword, date, id))

AddMeasurementObject ==
  \E cls \in DOMAIN measurements, date \in DateInputs :
    LET self == measurements[cls]
        measurement == Measurement(date, Len(added[cls]) + 1)
    IN  Added(cls, "add_measurement_object", "", "object", <<date>>,
              IF cls = "Handler" THEN Handler_add_measurement_object(self, measurement)
              ELSE AdderMixin_add_measurement_object(self, measurement))

AddMeasurements ==
  \E cls \in DOMAIN measurements, dates \in BatchInputs :
    LET self == measurements[cls]
        ms == NewMeasurements(dates, Len(added[cls]))
    IN  Added(cls, "add_measurements", "", "values", dates,
              IF cls = "Handler" THEN Handler_add_measurements(self, ms)
              ELSE AdderMixin_add_measurements(self, ms))

AddMeasurementObjects ==
  \E cls \in DOMAIN measurements, style \in {"varargs", "collection"}, dates \in BatchInputs :
    LET self == measurements[cls]
        ms == NewMeasurements(dates, Len(added[cls]))
    IN  Added(cls, "add_measurement_objects", "", style, dates,
              IF cls = "Handler" THEN Handler_add_measurement_objects(self, style, ms)
              ELSE AdderMixin_add_measurement_objects(self, style, ms))

\* the birthday of the subject
BirthdayInputs == {1000}

\* gestational_age_weeks and gestational_age_days as passed
WeeksInputs == {0, 28, 31, 32, 40}
DaysInputs == {0, 6, 7}

\* the dates asked about: the birthday and days after it
AgeDateInputs == {1000 + d : d \in {0, 1, 140, 252, 253, 490}}

\* the measurements and groups handed to the patient
PatientMeasurementInputs ==
  [value : {10}, measurement_type : {"stature", "weight"}, table_name : {"growth"},
   date : DateInputs]
GroupInputs ==
  {MeasurementGroup("growth", date, stature, weight, NONE) :
     date \in DateInputs, stature \in {NONE, 75}, weight \in {NONE, 10}}

\* the most groups a patient takes
MaxGroups == 2

\* child.set_gestational_age(weeks, days)
SetGestationalAge ==
  /\ child # NoChild
  /\ \E gestational_age_weeks \in WeeksInputs, gestational_age_days \in DaysInputs :
       LET r == Child_set_gestational_age(child, gestational_age_weeks,
                                          gestational_age_days)
       IN  /\ call' = [op |-> "set_gestational_age", cls |-> "Child",
                       gestational_age_weeks |-> gestational_age_weeks,
                       gestational_age_days |-> gestational_age_days]
           /\ ret' = r.result
           /\ child' = r.self
  /\ UNCHANGED <<catalog, views, loaded, threads, measurements, added, patient>>

\* child.age(date)
ChildAge ==
  /\ child # NoChild
  /\ \E date \in AgeDateInputs :
       /\ call' = [op |-> "age", cls |-> "Child", date |-> date]
       /\ ret' = Child_age(child, date)
  /\ UNCHANGED objects

\* patient.age(date)
PatientAge ==
  /\ patient # NoPatient
  /\ \E date \in AgeDateInputs :
       /\ call' = [op |-> "age", cls |-> "Patient", date |-> date]
       /\ ret' = Patient_age(patient, date)
  /\ UNCHANGED objects

\* patient.chronological_age(date)
PatientChronologicalAge ==
  /\ patient # NoPatient
  /\ \E date \in AgeDateInputs :
       /\ call' = [op |-> "chronological_age", cls |-> "Patient", date |-> date]
       /\ ret' = Patient_chronological_age(patient, date)
  /\ UNCHANGED objects

\* patient.add_measurement(measurement)
PatientAddMeasurement ==
  /\ patient # NoPatient
  /\ Len(patient.measurements) < MaxGroups
  /\ \E measurement \in PatientMeasurementInputs :
       /\ call' = [op |-> "add_measurement", cls |-> "Patient",
                   date |-> measurement.date]
       /\ ret' = RetNone
       /\ patient' = Patient_add_measurement(patient, measurement)
  /\ UNCHANGED <<catalog, views, loaded, threads, measurements, added, child>>

\* patient.add_measurements(group)
PatientAddMeasurements ==
  /\ patient # NoPatient
  /\ Len(patient.measurements) < MaxGroups
  /\ \E group \in GroupInputs :
       /\ call' = [op |-> "add_measurements", cls |-> "Patient",
                   date |-> group.date]
       /\ ret' = RetNone
       /\ patient' = Patient_add_measurements(patient, group)
  /\ UNCHANGED <<catalog, views, loaded, threads, measurements, added, child>>

\* the state of the objects before anything is loaded or added
NoObjects ==
  /\ views = <<>>
  /\ threads = <<>>
  /\ measurements = [Handler |-> <<>>, AdderMixin |-> <<>>]
  /\ added = [Handler |-> <<>>, AdderMixin |-> <<>>]
  /\ child = NoChild
  /\ patient = NoPatient

Init ==
  /\ call = Idle
  /\ ret = RetNone
  /\ catalog = <<>>
  /\ loaded = catalog
  /\ NoObjects

Next ==
  \/ GetKeys
  \/ ComputerGetTableName
  \/ ZScore
  \/ Percentile
  \/ CalculateZScore
  \/ TableDataInit
  \/ TableDataCalculateZScore
  \/ InterpolateLms
  \/ DecimalInterpolateLms
  \/ GetLms
  \/ TableDataGetLms
  \/ GetTableData
  \/ TableDataGetAgeGroup
  \/ ComputerGetAgeGroup
  \/ TransformMain
  \/ ProcessPath
  \/ CreateDataMain
  \/ EstimateLmsFromSd
  \/ DecimalEstimateLmsFromSd
  \/ Return

Spec == Init /\ [][Next]_vars

\* load_reference has read the catalog; views are made and worked on
CatalogInit ==
  /\ call = Idle
  /\ ret = RetNone
  /\ catalog \in CatalogInputs
  /\ loaded = catalog
  /\ NoObjects

CatalogNext ==
  \/ GetTable
  \/ FromData
  \/ CutData
  \/ AddChildData
  \/ ConvertZScoresToValues
  \/ Return

CatalogSpec == CatalogInit /\ [][CatalogNext]_vars

\* one object is constructed, a Handler or an object with the AdderMixin,
\* with an empty list
HandlerInit ==
  /\ call = Idle
  /\ ret = RetNone
  /\ catalog = <<>>
  /\ loaded = catalog
  /\ views = <<>>
  /\ threads = <<>>
  /\ \E cls \in Classes : measurements = [c \in {cls} |-> <<>>]
  /\ added = measurements
  /\ child = NoChild
  /\ patient = NoPatient

\* the calls on the object
HandlerNext ==
  \/ AddMeasurement
  \/ AddMeasurementObject
  \/ AddMeasurements
  \/ AddMeasurementObjects

HandlerSpec == HandlerInit /\ [][HandlerNext]_vars

\* the Child objects whose construction does not raise
ChildObjectInputs ==
  {r.self : r \in {c \in {Child_init(birthday_date, sex, weeks, days) :
                            birthday_date \in BirthdayInputs, sex \in {"F"},
                            weeks \in WeeksInputs \cup {NONE},
                            days \in DaysInputs \cup {NONE}} :
                     c.result.status # "error"}}

PatientObjectInputs ==
  {Patient_init(sex, birthday_date, weeks, days) :
     sex \in {"F"}, birthday_date \in BirthdayInputs \cup {NONE},
     weeks \in WeeksInputs, days \in DaysInputs}

\* one subject is constructed, a Child or a Patient
SubjectInit ==
  /\ call = Idle
  /\ ret = RetNone
  /\ catalog = <<>>
  /\ loaded = catalog
  /\ views = <<>>
  /\ threads = <<>>
  /\ measurements = [Handler |-> <<>>, AdderMixin |-> <<>>]
  /\ added = [Handler |-> <<>>, AdderMixin |-> <<>>]
  /\ \/ child \in ChildObjectInputs /\ patient = NoPatient
     \/ child = NoChild /\ patient \in PatientObjectInputs

\* the calls on the subject
SubjectNext ==
  \/ SetGestationalAge
  \/ ChildAge
  \/ PatientAge
  \/ PatientChronologicalAge
  \/ PatientAddMeasurement
  \/ PatientAddMeasurements

SubjectSpec == SubjectInit /\ [][SubjectNext]_vars

\* the catalog is loaded once; threads then call with it
ThreadsInit ==
  /\ call = Idle
  /\ ret = RetNone
  /\ catalog = ThreadCatalog
  /\ loaded = catalog
  /\ views = <<>>
  /\ \E n \in 1..MaxThreads :
       \E queries \in [1..n -> QueryInputs] :
         threads = [t \in 1..n |-> NewThread(queries[t])]
  /\ measurements = [Handler |-> <<>>, AdderMixin |-> <<>>]
  /\ added = [Handler |-> <<>>, AdderMixin |-> <<>>]
  /\ child = NoChild
  /\ patient = NoPatient

ThreadsNext ==
  \/ \E t \in DOMAIN threads : ThreadGetKeys(t)
  \/ \E t \in DOMAIN threads : ThreadGetTable(t)
  \/ \E t \in DOMAIN threads : ThreadGetLms(t)
  \/ \E t \in DOMAIN threads : ThreadCompute(t)

ThreadsSpec == ThreadsInit /\ [][ThreadsNext]_vars

(***************************************************************************)
(* Properties of the query resolver                                        *)
(***************************************************************************)
IsGetKeys == call.op = "get_keys"

\* the very-preterm override as the specification states it
SpecOverride(age_days, gestational_age) ==
  /\ age_days # NONE
  /\ gestational_age # NONE
  /\ gestational_age < 28 * WEEK
  /\ age_days < Days(64 * WEEK)

\* C4: for head_circumference with an age supplied, get_keys raises
\* NoReferenceForRange exactly when age_days > 5 * 365.25, and resolves a
\* table otherwise: age_days = 5 * 365.25 is accepted, one day more is not.
C4_HeadCircumferenceRange ==
  (IsGetKeys /\ call.age_days # NONE
     /\ normalized_measurement(call.measurement) = "head_circumference")
    => IF call.age_days > 5 * YEAR
         THEN ret = Err("NoReferenceForRange")
         ELSE ret.status = "ok"

C4_Witness ==
  /\ IsGetKeys
  /\ call.measurement = "hc"
  /\ call.age_days = 5 * YEAR
  /\ ret.status = "ok"

\* C5: a query with both age_days = 0 and gestational_age = 280 resolves to
\* the newborn table with x_var_type = gestational_age.
C5_BothAgesResolveToNewborn ==
  (IsGetKeys /\ call.age_days = 0 /\ call.gestational_age = 280
     /\ normalized_measurement(call.measurement)
          \in {"stature", "weight", "head_circumference"})
    => /\ ret.status = "ok"
       /\ ret.val.name = "newborn"
       /\ ret.val.x_var_type = "gestational_age"

\* C6: the resolved table is very_preterm_growth exactly when both ages are
\* supplied, gestational_age < 28 * 7 days and age < 64 * 7 days.
C6_VeryPretermOverrideExact ==
  (IsGetKeys /\ ret.status = "ok")
    => ((ret.val.name = "very_preterm_growth")
          <=> SpecOverride(call.age_days, call.gestational_age))

\* C7: an age-supplied query that passes the range checks and is not covered
\* by the very-preterm override resolves to growth if age_days > 5 * 365.25
\* and to child_growth otherwise, in get_keys and in Computer._get_table_name.
C7_GrowthOrChildGrowth ==
  /\ (IsGetKeys /\ call.age_days # NONE /\ ret.status = "ok"
        /\ ~SpecOverride(call.age_days, call.gestational_age))
       => ret.val.name =
            (IF call.age_days > 5 * YEAR THEN "growth" ELSE "child_growth")
  /\ (call.op = "Computer._get_table_name" /\ call.age_days # 0
        /\ call.is_very_preterm # "True")
       => ret.val.name =
            (IF call.age_days > 5 * YEAR THEN "growth" ELSE "child_growth")

\* C8: with only gestational_age supplied (in days), x_var_type is
\* gestational_age and the table is very_preterm_newborn below 28 weeks
\* (196 days) and newborn above 28 weeks.
C8_GestationalAgeOnly ==
  (IsGetKeys /\ call.age_days = NONE /\ call.gestational_age # NONE
     /\ ret.status = "ok")
    => /\ ret.val.x_var_type = "gestational_age"
       /\ call.gestational_age < 28 * WEEK => ret.val.name = "very_preterm_newborn"
       /\ call.gestational_age > 28 * WEEK => ret.val.name = "newborn"

\* C9: for weight_stature_ratio, reached through any alias, an age-supplied
\* query with age_days > 5 * 365.25 raises NoReferenceForRange.
C9_WeightStatureRange ==
  (IsGetKeys /\ call.age_days # NONE /\ call.age_days > 5 * YEAR
     /\ normalized_measurement(call.measurement) = "weight_stature_ratio")
    => ret = Err("NoReferenceForRange")

(***************************************************************************)
(* Properties of the z-score operations                                    *)
(***************************************************************************)
IsPublicQuery == call.op \in {"zscore", "percentile"}

\* the z (or the argument of Phi) a public query returned
ReturnedZ == IF call.op = "percentile" THEN ret.val.Phi ELSE ret.val.z

\* the LMS triple a successful public query evaluated the value against
QueryLMS ==
  LET age_days == total_days(call.kwargs) \div 100
      sx == IF call.sex \notin {"M", "F"} THEN "F" ELSE call.sex
  IN  get_table_data(choose_table(call.measurement, age_days, sx).val,
                     age_days).val

\* the extreme-tail correction of an interior z beyond 3 or below -3
TailCorrected(y, l, m, s) ==
  LET z == calculate_z_score(y, l, m, s)
      v(k) == calculate_value_for_z_score(RInt(k), l, m, s)
  IN  IF RLt(RInt(3), z)
        THEN RAdd(RInt(3), RDiv(RSub(y, v(3)), RSub(v(3), v(2))))
      ELSE IF RLt(z, RInt(-3))
        THEN RAdd(RInt(-3), RDiv(RSub(y, v(-3)), RSub(v(-2), v(-3))))
      ELSE z

\* C1: the public zscore and percentile apply the extreme-tail correction:
\* when the interior z of the queried value is above 3 (below -3) and L is
\* not 1, the z returned, and the z percentile applies Phi to, is
\* 3 + (Y - SD3)/(SD3 - SD2) (symmetrically for the lower tail).  Stated for
\* the powers L for which value-for-z is the power formula (L # 0).
C1_PublicTailCorrection ==
  (IsPublicQuery /\ ret.status = "ok" /\ QueryLMS.l \notin {0, 1})
    => ReturnedZ = TailCorrected(RInt(call.value), QueryLMS.l, QueryLMS.m,
                                 QueryLMS.s)

\* necessary for x = exp(t): the Taylor bounds 1 + t < exp(t) for t # 0,
\* exp(t) > 1 + t + t^2/2 for t > 0 and exp(t) < 1 + t + t^2/2 for t < 0
ExpEnclosure(t, x) ==
  LET one == RInt(1)
      t2 == RAdd(RAdd(one, t), RDiv(RMul(t, t), RInt(2)))
  IN  IF t = RInt(0) THEN x = one
      ELSE IF RLt(RInt(0), t) THEN RLt(t2, x)
      ELSE RLt(RAdd(one, t), x) /\ RLt(x, t2)

\* C2: for L = 0 the z-score of Y is ln(Y/M)/S, the exact inverse of
\* Y = M * exp(S * z): exp(S * z) of the z returned is Y / M.
C2_LambdaZeroIsLog ==
  (call.op = "calculate_z_score" /\ call.l = 0)
    => ExpEnclosure(RMul(call.s, ret.val.z),
                    RDiv(RInt(call.value), RInt(call.m)))

\* C3: a query made with sex = "U" returns what the identical query made
\* with sex = "F" returns, the same value or the same error.
C3_UnknownSexIsFemale ==
  /\ (IsGetKeys /\ call.sex = "U")
       => ret = get_keys(call.measurement, "F", call.age_days,
                         call.gestational_age)
  /\ (call.op = "zscore" /\ call.sex = "U")
       => ret = zscore(call.measurement, call.value, "F", call.kwargs)
  /\ (call.op = "percentile" /\ call.sex = "U")
       => ret = percentile(call.measurement, call.value, "F", call.kwargs)
  /\ (call.op = "TableData" /\ call.sex = "U")
       => /\ ret.status = TableData_init("F").status
          /\ ret.status = "ok" => ret.val.files = TableData_init("F").val.files

\* C10: a zscore or percentile call that supplies no age at all fails with
\* an error; it returns neither a number nor an empty result.
C10_MissingAgeIsAnError ==
  (IsPublicQuery /\ call.kwargs = AgeArgs(NONE, NONE, NONE, NONE, NONE, NONE))
    => ret.status = "error"

(***************************************************************************)
(* Properties of the controlled vocabularies                               *)
(***************************************************************************)
\* C11: a query whose sex is not one of M, F, U is rejected with an error; it
\* is never answered from some sex's reference table.
C11_UnknownSexRejected ==
  (call.op \in {"get_keys", "zscore", "percentile", "TableData"}
     /\ call.sex \notin {"M", "F", "U"} /\ Upper(call.sex) \notin {"M", "F", "U"})
    => ret.status = "error"

(***************************************************************************)
(* Properties of LMS extraction                                            *)
(***************************************************************************)
IsExtraction ==
  call.op \in {"stats.interpolate_lms", "decimal_stats.interpolate_lms",
               "get_lms"}

\* the x values of the table of an extraction call
TableRange == {call.table[i] : i \in 1..Len(call.table)}

OutOfTable ==
  /\ IsExtraction
  /\ call.table # <<>>
  /\ \/ \A a \in TableRange : call.x < a
     \/ \A a \in TableRange : call.x > a

SliceKey(r) ==
  <<r.name, r.age_group, r.sex, r.measurement_type, r.x_var_type, r.x_var_unit>>

\* C13: in the catalog that the build writes, the x values of every slice
\* (name, age_group, sex, measurement, x_var_type, x_var_unit) are strictly
\* increasing in stored order, whatever files were read and in whatever order;
\* likewise the points written for a table by consolidate_data.
C13_SlicesStrictlyIncreasing ==
  /\ (call.op = "transform.main" /\ ret.status = "ok")
       => \A i, j \in DOMAIN ret.val.rows :
            (i < j /\ SliceKey(ret.val.rows[i]) = SliceKey(ret.val.rows[j]))
              => ret.val.rows[i].x < ret.val.rows[j].x
  /\ (call.op = "create_data.main" /\ ret.status = "ok")
       => \A i, j \in DOMAIN ret.val.points :
            i < j => ret.val.points[i] < ret.val.points[j]

\* the files of a build that cannot be read
BadFiles ==
  IF call.op = "transform.main"
    THEN {i \in DOMAIN call.files :
            RawTable_from_csv(call.files[i]).status = "error"}
  ELSE IF call.op = "create_data.main"
    THEN {i \in DOMAIN call.files :
            ~call.files[i].found \/ ~call.files[i].lms}
  ELSE {}

\* C14: when reading one raw file fails, the build skips that file, still
\* takes in every other file and still produces its output.
C14_BadFileIsSkipped ==
  /\ (call.op = "transform.main" /\ BadFiles # {})
       => /\ ret.status = "ok"
          /\ ret.val.rows =
               join_data([i \in 1..Len(SelectSeq(call.files,
                             LAMBDA f : RawTable_from_csv(f).status = "ok")) |->
                   transform_age_to_days(RawTable_from_csv(
                     SelectSeq(call.files,
                       LAMBDA f : RawTable_from_csv(f).status = "ok")[i]).val)])
  /\ (call.op = "create_data.main" /\ BadFiles # {}
        /\ BadFiles # DOMAIN call.files)
       => /\ ret.status = "ok"
          /\ ret.val.written
          /\ \A i \in DOMAIN call.files \ BadFiles :
               \A k \in DOMAIN call.files[i].xs :
                 \E p \in DOMAIN ret.val.points :
                   ret.val.points[p] =
                     Dataset_from_csv(call.files[i])[k]

\* C25: no row with sex U is ever stored in the catalog that the build
\* writes, whatever raw files were read.
C25_NoUnknownSexStored ==
  (call.op = "transform.main" /\ ret.status = "ok")
    => \A i \in DOMAIN ret.val.rows : ret.val.rows[i].sex # "U"

\* a file name source-table-weight_stature-sex of the published taxonomy
IsWeightStatureName(parts) ==
  /\ Len(parts) = 4
  /\ parts[1] \in DATA_SOURCE_CHOICES
  /\ parts[2] \in TABLE_NAME_CHOICES
  /\ parts[3] = "weight_stature"
  /\ Upper(parts[4]) \in SEX_CHOICES

\* C26: a raw file whose name carries the measurement token weight_stature is
\* taken in, and its rows carry the measurement type weight_stature_ratio.
C26_WeightStatureIngested ==
  /\ (call.op = "RawTable._process_path" /\ IsWeightStatureName(call.parts))
       => /\ ret.status = "ok"
          /\ ret.val.measurement_type = "weight_stature_ratio"
  /\ (call.op = "transform.main"
        /\ \A i \in DOMAIN call.files : IsWeightStatureName(call.files[i].name))
       => /\ ret.status = "ok"
          /\ ret.val.rows # <<>>
          /\ \A i \in DOMAIN ret.val.rows :
               ret.val.rows[i].measurement_type = "weight_stature_ratio"

\* the age group join_data gives a row at x days of a table of ages that
\* spans the groups
IngestAgeGroup(x) ==
  JoinedAgeGroup([name |-> "growth", age_group |-> "growth",
                  x_var_type |-> "age"], x)

\* C30: for every integer age x in days, the age group a reference row with
\* that x receives at ingest (split at 2, 5 and 10 years of 365.25 days) is the
\* age group the query side selects for a measurement taken at age x.
C30_IngestAndQueryAgree ==
  /\ (call.op = "TableData.get_age_group" /\ ~call.newborn
        /\ ~call.very_preterm)
       => ret = Ok([age_group |-> IngestAgeGroup(call.x)])
  /\ (call.op = "Computer._get_age_group" /\ call.x # 0
        /\ call.is_very_preterm # "True"
        /\ call.measurement_type = "stature")
       => ret = Ok([age_group |-> IngestAgeGroup(call.x)])

(***************************************************************************)
(* Properties of the LMS estimator                                         *)
(***************************************************************************)
IsEstimate ==
  call.op \in {"stats.estimate_lms_from_sd", "decimal_stats.estimate_lms_from_sd"}

\* C15: the LMS estimator fails with an error whenever the z indices given do
\* not contain z = 0; it returns nothing in that case.
C15_MissingMedianIsAnError ==
  (IsEstimate /\ ~(\E i \in DOMAIN call.z_scores : call.z_scores[i] = 0))
    => ret.status = "error"

(***************************************************************************)
(* Properties of the table views                                           *)
(***************************************************************************)
IsFromData == call.op \in {"get_table", "from_data"}

\* the rows of the catalog that the filters of the call leave
Surviving ==
  Filtered(catalog, call.key.name, call.key.age_group,
           call.key.measurement_type, call.key.sex, call.key.x_var_type)

\* C16: get_table / from_data returns a view only when the rows surviving
\* the filter belong to exactly one source and exactly one table name, which
\* are then the view's; with no or several sources or names it raises an error.
C16_OneSourceOneName ==
  IsFromData
    => LET sources == {Surviving[i].source : i \in DOMAIN Surviving}
           names == {Surviving[i].name : i \in DOMAIN Surviving}
       IN  /\ ret.status \in {"ok", "error"}
           /\ (Cardinality(sources) # 1 \/ Cardinality(names) # 1)
                => ret.status = "error"
           /\ ret.status = "ok"
                => sources = {ret.val.source} /\ names = {ret.val.name}

C16_Witness ==
  /\ call.op = "get_table"
  /\ Cardinality({Surviving[i].source : i \in DOMAIN Surviving}) = 2
  /\ ret = Err("ValueError")

\* C17: no operation on a view (cut_data, add_child_data,
\* convert_z_scores_to_values) changes the catalog, and get_table keeps
\* returning for a key the view it returns on the catalog as it was loaded,
\* whatever was done to the views handed out before.
C17_ViewsLeaveCatalogAlone ==
  [][/\ catalog' = catalog
     /\ call'.op = "get_table" => ret' = get_table(loaded, call'.key).result]_vars

C17_Witness ==
  /\ call.op = "get_table"
  /\ ret.status = "ok"
  /\ Len(views) = 1
  /\ views[1].name = ret.val.name /\ views[1].sex = ret.val.sex
  /\ views[1].x # ret.val.x
  /\ views[1].has_y
  /\ ret = get_table(loaded, call.key).result
  /\ catalog = loaded

\* the arrays of a view have one length
IsParallel(view) ==
  /\ Len(view.L) = Len(view.x)
  /\ Len(view.M) = Len(view.x)
  /\ Len(view.S) = Len(view.x)
  /\ Len(view.is_derived) = Len(view.x)
  /\ view.has_y => Len(view.y) = Len(view.x)

\* position i of L, M, S and is_derived holds what the catalog row of the
\* view's table at x[i] holds
DescribesX(view, i) ==
  \A k \in DOMAIN loaded :
    (/\ loaded[k].source = view.source /\ loaded[k].name = view.name
     /\ loaded[k].sex = Upper(view.sex) /\ loaded[k].x = view.x[i])
      => /\ i \in DOMAIN view.L /\ view.L[i] = loaded[k].l
         /\ i \in DOMAIN view.M /\ view.M[i] = loaded[k].m
         /\ i \in DOMAIN view.S /\ view.S[i] = loaded[k].s
         /\ i \in DOMAIN view.is_derived
         /\ view.is_derived[i] = loaded[k].is_derived

\* C27: after any sequence of cut_data and add_child_data calls on a
\* GrowthTable, the arrays x, L, M, S and is_derived (and y once it exists)
\* all have the same length, and position i of each describes the same x[i].
C27_ArraysStayParallel ==
  \A v \in DOMAIN views :
    /\ IsParallel(views[v])
    /\ \A i \in DOMAIN views[v].x : DescribesX(views[v], i)

(***************************************************************************)
(* Properties of concurrent calls                                          *)
(***************************************************************************)
\* what the call of a query gives when it runs alone on the loaded catalog
Alone(q) ==
  LET keys == get_keys(q.measurement, q.sex, Days(q.x), NONE)
  IN  IF keys.status = "error" THEN keys
      ELSE LET table == get_table(loaded, keys.val).result
           IN  IF table.status = "error" THEN table
               ELSE LET lms == get_lms(table.val, q.x)
                    IN  IF lms.status = "error" THEN lms
                        ELSE LET z == calculate_z_score(RInt(q.value), lms.val.l,
                                                        lms.val.m, lms.val.s)
                             IN  IF q.kind = "zscore" THEN Ok([z |-> z])
                                 ELSE Ok([percentile |-> normal_cdf(z)])

\* C18: with the catalog loaded once, every call that several threads run at
\* the same time, in any interleaving of their steps and without a lock, ends
\* with the result it has when it runs alone.
C18_ConcurrentCallsAgree ==
  \A t \in DOMAIN threads :
    threads[t].pc = "done" => threads[t].result = Alone(threads[t].query)

C18_Witness ==
  /\ Len(threads) = 2
  /\ threads[1].pc = "table"
  /\ threads[2].pc = "done"
  /\ threads[2].result.status = "ok"
  /\ threads[1].query.sex # threads[2].query.sex
  /\ threads[2].result = Alone(threads[2].query)

(***************************************************************************)
(* Properties of the measurement lists                                     *)
(***************************************************************************)
\* every element is a Measurement and the dates ascend
IsSortedByDate(list) ==
  /\ \A i \in DOMAIN list : list[i].kind = "Measurement"
  /\ \A i, j \in DOMAIN list : i < j => list[i].date <= list[j].date

\* the measurements numbered in ids are in the list, each once
Holds(list, cls, ids) ==
  \A id \in ids :
    Cardinality({i \in DOMAIN list : /\ list[i].kind = "Measurement"
                                     /\ list[i].id = id
                                     /\ list[i].date = added[cls][id]}) = 1

\* C19: after any sequence of add_measurement, add_measurement_object,
\* add_measurements and add_measurement_objects calls the list of the object
\* is sorted by date ascending and holds exactly the measurements passed to
\* it, each once.
C19_SortedAndComplete ==
  \A cls \in DOMAIN measurements :
    /\ IsSortedByDate(measurements[cls])
    /\ Len(measurements[cls]) = Len(added[cls])
    /\ Holds(measurements[cls], cls, DOMAIN added[cls])

\* C20: add_measurement_objects called with one collection of N Measurement
\* objects puts the N measurements into the list and leaves it sorted by date.
C20_CollectionIsAdded ==
  (call.op = "add_measurement_objects" /\ call.style = "collection") =>
    LET list == measurements[call.cls]
        n == Len(added[call.cls])
    IN  /\ Holds(list, call.cls, (n - Len(call.dates) + 1)..n)
        /\ IsSortedByDate(list)

(***************************************************************************)
(* Properties of the subject                                               *)
(***************************************************************************)
\* the gestational age at birth is known and below 32 weeks
VeryPretermAtBirth(gestational_age) ==
  gestational_age # NONE /\ gestational_age < 32 * WEEK

\* the age at date: from the last menstrual period for a very preterm subject
\* up to 64 weeks after it, else from the birthday
ReportedAge(birthday_date, gestational_age, date) ==
  IF /\ VeryPretermAtBirth(gestational_age)
     /\ date - (birthday_date - gestational_age) <= 64 * WEEK
    THEN date - (birthday_date - gestational_age)
  ELSE date - birthday_date

\* C21: for a very preterm subject the age reported for a date is measured
\* from the last menstrual period while that post-menstrual age is at most 64
\* weeks and from the birthday once it exceeds 64 weeks; for any other subject
\* it is measured from the birthday.
C21_AgeFromLmpUntil64Weeks ==
  /\ (call.op = "age" /\ call.cls = "Child") =>
       ret = Ok([days |-> ReportedAge(child.birthday_date, child.gestational_age,
                                      call.date)])
  /\ (call.op = "chronological_age" /\ call.cls = "Patient" /\ patient.is_born) =>
       ret = Ok([days |-> ReportedAge(patient.birthday_date,
                                      patient.gestational_age, call.date)])

\* C22: is_very_preterm is true exactly when the gestational age at birth is
\* below 32 weeks, at construction and after every set_gestational_age call.
C22_FlagMeansBelow32Weeks ==
  /\ child # NoChild =>
       (child.is_very_preterm = "True" <=> VeryPretermAtBirth(child.gestational_age))
  /\ (patient # NoPatient /\ patient.is_born) =>
       (patient.is_very_preterm = "True"
          <=> VeryPretermAtBirth(patient.gestational_age))

\* C28: after construction and any sequence of set_gestational_age calls on a
\* Child, whenever is_very_preterm is true the LMP date is set, so age() never
\* fails with the 'LMP date is not set' error.
C28_VeryPretermHasLmp ==
  /\ (child # NoChild /\ child.is_very_preterm = "True") => child.lmp_date # NONE
  /\ (call.op = "age" /\ call.cls = "Child") => ret.status # "error"

\* C29: after any sequence of Patient.add_measurement and
\* Patient.add_measurements calls the patient holds at most one
\* MeasurementGroup per date.
C29_OneGroupPerDate ==
  \A i, j \in DOMAIN patient.measurements :
    i # j => patient.measurements[i].date # patient.measurements[j].date

(***************************************************************************)
(* Properties of the lookup of an exact sample                             *)
(***************************************************************************)
\* the query x of the call is an x sample of its table
IsSample(x) == \E i \in DOMAIN call.table : call.table[i] = x

\* C23: when the query x equals an x sample of the table, the (L, M, S)
\* returned is the triple stored at that sample's own index, with no
\* interpolation.
C23_ExactSampleIsReturned ==
  /\ (call.op \in {"get_lms", "TableData.get_lms"} /\ IsSample(call.x))
       => ret = Ok(RowLMS(call.x))
  /\ (call.op = "_get_table_data" /\ IsSample(Days(call.x)))
       => ret = Ok(RowLMS(Days(call.x)))

C23_Witness ==
  /\ call.op = "_get_table_data"
  /\ call.table = <<0, 10000, 10050>>
  /\ call.x = 100
  /\ ret = Ok(RowLMS(10000))

(***************************************************************************)
(* Properties of the estimated parameters                                  *)
(***************************************************************************)
\* C24: every (L, S) pair the LMS estimator returns satisfies
\* -1.1 <= L <= 1.1 and 1e-8 <= S <= 1.
C24_EstimateWithinBounds ==
  (IsEstimate /\ ret.status = "ok" /\ "l" \in DOMAIN ret.val)
    => /\ RLe(Rat(-11, 10), ret.val.l) /\ RLe(ret.val.l, Rat(11, 10))
       /\ RLe(Rat(1, 100000000), ret.val.s) /\ RLe(ret.val.s, RInt(1))

====
